---- MODULE Spec2Model ----
(***************************************************************************)
(* Model of the audit-log canonicalisation pipeline (src/main.py and       *)
(* src/data_processing/*.py): schema resolution, timestamp normalisation,  *)
(* lifecycle and noise filters, classification, translation, sequence      *)
(* extraction, activity naming, create aggregation, sorting,               *)
(* deduplication and the tiered XES export.                                *)
(*                                                                         *)
(* Strings that the code compares, pattern-matches or concatenates are     *)
(* modelled as sequences of tokens: a maximal run of decimal digits        *)
(* (width w > 0, value v) or a chunk of non-digit text (w = 0, text s).    *)
(* Field names and operation labels, which the code only tests for         *)
(* equality (after lower()), are plain strings.                            *)
(***************************************************************************)
EXTENDS Integers, Sequences, FiniteSets, TLC

\* ------------------------------------------------------------------ bounds

\* Longest table (number of rows) the model feeds to the pipeline.
MaxRows == 3

\* ----------------------------------------------------------------- strings

\* F(v), with v evaluated once however often F uses its argument.
With(v, F(_)) == CHOOSE r \in {F(x) : x \in {v}} : TRUE

\* A run of w decimal digits whose value is v ("03" is D(2, 3)).
D(w, v) == [w |-> w, v |-> v, s |-> ""]

\* A chunk of non-digit text.
W(s) == [w |-> 0, v |-> 0, s |-> s]

IsDigits(tok) == tok.w > 0

IsChunk(tok, s) == tok.w = 0 /\ tok.s = s

IsSpace(tok) == IsChunk(tok, " ")

RECURSIVE Pow10(_)
Pow10(n) == IF n = 0 THEN 1 ELSE 10 * Pow10(n - 1)

\* Code point of the one-character chunks that occur in values the code orders
\* (case identifiers and timestamps).
Code(s) ==
    CASE s = " " -> 32
      [] s = "+" -> 43
      [] s = "-" -> 45
      [] s = "." -> 46
      [] s = "/" -> 47
      [] s = ":" -> 58
      [] s = "C" -> 67
      [] s = "T" -> 84
      [] s = "Z" -> 90

\* The code points of one token.
TokChars(tok) ==
    IF IsDigits(tok)
    THEN [i \in 1..tok.w |-> 48 + ((tok.v \div Pow10(tok.w - i)) % 10)]
    ELSE <<Code(tok.s)>>

RECURSIVE Chars(_)
\* The code points of a string, in order.
Chars(str) == IF str = <<>> THEN <<>> ELSE TokChars(Head(str)) \o Chars(Tail(str))

RECURSIVE LexLess(_, _)
\* Python's (and pandas') ordering of two sequences of code points.
LexLess(a, b) ==
    IF b = <<>> THEN FALSE
    ELSE IF a = <<>> THEN TRUE
    ELSE IF Head(a) # Head(b) THEN Head(a) < Head(b)
    ELSE LexLess(Tail(a), Tail(b))

\* str < str, by code point.
StrLess(a, b) == LexLess(Chars(a), Chars(b))

RECURSIVE LStrip(_)
LStrip(str) == IF str # <<>> /\ IsSpace(Head(str)) THEN LStrip(Tail(str)) ELSE str

RECURSIVE RStrip(_)
RStrip(str) ==
    IF str # <<>> /\ IsSpace(str[Len(str)])
    THEN RStrip(SubSeq(str, 1, Len(str) - 1))
    ELSE str

\* str.strip()
Strip(str) == RStrip(LStrip(str))

\* str.lower() of a field name or keyword; every other name of the model's
\* vocabulary is already lower case.
Lower(s) ==
    CASE s = "PriceLevelId" -> "pricelevelid"
      [] s = "StatusCode" -> "statuscode"
      [] s = "StepName" -> "stepname"
      [] s = "OwnerId" -> "ownerid"
      [] s = "StateCode" -> "statecode"
      [] s = "ConfirmInterest" -> "confirminterest"
      [] s = "NULL" -> "null"
      [] OTHER -> s

\* ----------------------------------------------- calendar (datetime module)

IsLeap(y) == (y % 4 = 0 /\ y % 100 # 0) \/ y % 400 = 0

DaysInMonth(y, mo) ==
    IF mo = 2 THEN (IF IsLeap(y) THEN 29 ELSE 28)
    ELSE IF mo \in {4, 6, 9, 11} THEN 30 ELSE 31

\* Days from 1970-01-01 to the proleptic Gregorian date y-mo-d.
DaysFromCivil(y, mo, d) ==
    LET yy  == IF mo <= 2 THEN y - 1 ELSE y
        era == yy \div 400
        yoe == yy - era * 400
        mp  == IF mo > 2 THEN mo - 3 ELSE mo + 9
        doy == (153 * mp + 2) \div 5 + d - 1
        doe == yoe * 365 + yoe \div 4 - yoe \div 100 + doy
    IN  era * 146097 + doe - 719468

\* The date y-mo-d that lies z days after 1970-01-01.
CivilFromDays(z) ==
    LET zz  == z + 719468
        era == zz \div 146097
        doe == zz - era * 146097
        yoe == (doe - doe \div 1460 + doe \div 36524 - doe \div 146096) \div 365
        doy == doe - (365 * yoe + yoe \div 4 - yoe \div 100)
        mp  == (5 * doy + 2) \div 153
        d   == doy - (153 * mp + 2) \div 5 + 1
        mo  == IF mp < 10 THEN mp + 3 ELSE mp - 9
        y   == yoe + era * 400 + (IF mo <= 2 THEN 1 ELSE 0)
    IN  [y |-> y, mo |-> mo, d |-> d]

\* A datetime value: ok is FALSE when the constructor raised ValueError; aware
\* says whether it carries a UTC offset, off is that offset in minutes.
Dt(y, mo, d, h, mi, s, aware, off) ==
    [ok |-> TRUE, y |-> y, mo |-> mo, d |-> d, h |-> h, mi |-> mi, s |-> s,
     aware |-> aware, off |-> off]

NoDt ==
    [ok |-> FALSE, y |-> 0, mo |-> 0, d |-> 0, h |-> 0, mi |-> 0, s |-> 0,
     aware |-> FALSE, off |-> 0]

\* datetime(y, mo, d, h, mi, s): the ranges the constructor enforces.
ValidDateTime(y, mo, d, h, mi, s) ==
    /\ y \in 1..9999
    /\ mo \in 1..12
    /\ d >= 1 /\ d <= DaysInMonth(y, mo)
    /\ h \in 0..23 /\ mi \in 0..59 /\ s \in 0..59

\* The kind of each token of a string: "d" for a digit run, else the chunk.
Shape(str) == [i \in DOMAIN str |-> IF IsDigits(str[i]) THEN "d" ELSE str[i].s]

\* ------------------------------------------------- datetime.fromisoformat

\* The one-character chunks of the model's strings: any of them can stand
\* between the date and the time.
Separators == {"T", " ", "+", "-", ":", "/", "."}

\* The time part at the head of rest: <sep>HH[:MM[:SS[.f]]]; used is the number
\* of tokens it takes (0 when rest does not start with a time).
IsoTime(rest) ==
    LET sh == Shape(rest)
        n  == Len(rest)
        two(i) == i <= n /\ sh[i] = "d" /\ rest[i].w = 2
        sep(i, c) == i <= n /\ sh[i] = c
        hasH == n >= 2 /\ sh[1] \in Separators /\ two(2)
        hasM == hasH /\ sep(3, ":") /\ two(4)
        hasS == hasM /\ sep(5, ":") /\ two(6)
        hasF == hasS /\ sep(7, ".") /\ 8 <= n /\ sh[8] = "d"
    IN  [used |-> IF hasF THEN 8 ELSE IF hasS THEN 6 ELSE IF hasM THEN 4
                  ELSE IF hasH THEN 2 ELSE 0,
         h  |-> IF hasH THEN rest[2].v ELSE 0,
         mi |-> IF hasM THEN rest[4].v ELSE 0,
         s  |-> IF hasS THEN rest[6].v ELSE 0]

\* The UTC offset that ends an ISO string: nothing (naive) or (+|-)HH:MM.
IsoOffset(rest) ==
    LET sh == Shape(rest)
    IN  IF rest = <<>> THEN [ok |-> TRUE, aware |-> FALSE, off |-> 0]
        ELSE IF /\ Len(rest) = 4
                /\ sh[1] \in {"+", "-"} /\ sh[2] = "d" /\ sh[3] = ":" /\ sh[4] = "d"
                /\ rest[2].w = 2 /\ rest[4].w = 2
                /\ rest[2].v <= 23 /\ rest[4].v <= 59
        THEN [ok |-> TRUE, aware |-> TRUE,
              off |-> (IF sh[1] = "-" THEN -1 ELSE 1) * (rest[2].v * 60 + rest[4].v)]
        ELSE [ok |-> FALSE, aware |-> FALSE, off |-> 0]

\* datetime.fromisoformat(str) for the extended format
\* YYYY-MM-DD[*HH[:MM[:SS[.f]]][(+|-)HH:MM]], * any one character; NoDt stands
\* for ValueError.
FromIsoFormat(str) ==
    LET sh == Shape(str)
        n  == Len(str)
        dateOk == /\ n >= 5
                  /\ SubSeq(sh, 1, 5) = <<"d", "-", "d", "-", "d">>
                  /\ str[1].w = 4 /\ str[3].w = 2 /\ str[5].w = 2
        rest == SubSeq(str, 6, n)
        Zoned(tm) ==
            LET Whole(tz) ==
                    IF /\ tz.ok
                       /\ (tz.aware => tm.used > 0)
                       /\ ValidDateTime(str[1].v, str[3].v, str[5].v, tm.h, tm.mi, tm.s)
                    THEN Dt(str[1].v, str[3].v, str[5].v, tm.h, tm.mi, tm.s,
                            tz.aware, tz.off)
                    ELSE NoDt
            IN  With(IsoOffset(SubSeq(rest, tm.used + 1, Len(rest))), Whole)
    IN  IF dateOk THEN With(IsoTime(rest), Zoned) ELSE NoDt

\* ------------------------------------------------------ datetime.strptime

RECURSIVE CollapseSpaces(_)
\* A run of spaces reduced to one space: a blank of a strptime format matches
\* any run of white space.
CollapseSpaces(str) ==
    IF Len(str) < 2 THEN str
    ELSE IF IsSpace(str[1]) /\ IsSpace(str[2]) THEN CollapseSpaces(Tail(str))
    ELSE <<Head(str)>> \o CollapseSpaces(Tail(str))

\* Whether one token matches one element of a format: a directive or a literal.
DirectiveMatches(tok, dir) ==
    CASE dir = "%Y" -> tok.w = 4
      [] dir = "%y" -> tok.w = 2
      [] dir = "%m" -> tok.w \in 1..2 /\ tok.v \in 1..12
      [] dir = "%d" -> tok.w \in 1..2 /\ tok.v \in 1..31
      [] dir = "%H" -> tok.w \in 1..2 /\ tok.v \in 0..23
      [] dir = "%I" -> tok.w \in 1..2 /\ tok.v \in 1..12
      [] dir = "%M" -> tok.w \in 1..2 /\ tok.v \in 0..59
      [] dir = "%S" -> tok.w \in 1..2 /\ tok.v \in 0..61
      [] dir = "%p" -> tok.w = 0 /\ tok.s \in {"AM", "PM", "am", "pm"}
      [] OTHER -> IsChunk(tok, dir)

\* The value the token under directive dir carries, dflt when fmt lacks dir.
DirectiveValue(str, fmt, dir, dflt) ==
    IF \E i \in DOMAIN fmt : fmt[i] = dir
    THEN str[CHOOSE i \in DOMAIN fmt : fmt[i] = dir].v
    ELSE dflt

\* strptime on a string whose runs of blanks are collapsed.
StrptimeCollapsed(str, fmt) ==
    LET matches == /\ Len(str) = Len(fmt)
                   /\ \A i \in DOMAIN fmt : DirectiveMatches(str[i], fmt[i])
        yy  == DirectiveValue(str, fmt, "%y", 0)
        y   == IF \E i \in DOMAIN fmt : fmt[i] = "%Y"
               THEN DirectiveValue(str, fmt, "%Y", 0)
               ELSE IF yy <= 68 THEN 2000 + yy ELSE 1900 + yy
        mo  == DirectiveValue(str, fmt, "%m", 1)
        d   == DirectiveValue(str, fmt, "%d", 1)
        h24 == DirectiveValue(str, fmt, "%H", 0)
        h12 == DirectiveValue(str, fmt, "%I", 12)
        pm  == \E i \in DOMAIN fmt : fmt[i] = "%p" /\ str[i].s \in {"PM", "pm"}
        h   == IF \E i \in DOMAIN fmt : fmt[i] = "%I"
               THEN (h12 % 12) + (IF pm THEN 12 ELSE 0)
               ELSE h24
        mi  == DirectiveValue(str, fmt, "%M", 0)
        s   == DirectiveValue(str, fmt, "%S", 0)
    IN  IF matches /\ ValidDateTime(y, mo, d, h, mi, s)
        THEN Dt(y, mo, d, h, mi, s, FALSE, 0)
        ELSE NoDt

\* datetime.strptime(raw, fmt); NoDt stands for ValueError.
Strptime(raw, fmt) ==
    LET Parse(str) == StrptimeCollapsed(str, fmt)
    IN  With(CollapseSpaces(raw), Parse)

\* ------------------------------------------- timestamp_parsing.py (step 1)

_TIMESTAMP_STRPTIME_FALLBACKS ==
    << <<"%Y", "/", "%m", "/", "%d", " ", "%H", ":", "%M", ":", "%S">>,
       <<"%d", "/", "%m", "/", "%Y", " ", "%I", ":", "%M", ":", "%S", " ", "%p">>,
       <<"%d", "/", "%m", "/", "%Y", " ", "%I", ":", "%M", " ", "%p">>,
       <<"%d", "/", "%m", "/", "%Y", " ", "%H", ":", "%M", ":", "%S">>,
       <<"%d", "/", "%m", "/", "%Y", " ", "%H", ":", "%M">>,
       <<"%m", "/", "%d", "/", "%y", " ", "%H", ":", "%M">> >>

DROP_TIMESTAMP_MISSING == "DROP_TIMESTAMP_MISSING"

DROP_TIMESTAMP_INVALID == "DROP_TIMESTAMP_INVALID"

\* "No timestamp": Python's None in the first place of the parser's result.
None == <<>>

\* "No drop reason": Python's None in the second place of the parser's result.
NoReason == "None"

\* raw with a trailing "Z" replaced by "+00:00".
ZToOffset(raw) ==
    IF raw # <<>> /\ IsChunk(raw[Len(raw)], "Z")
    THEN SubSeq(raw, 1, Len(raw) - 1) \o <<W("+"), D(2, 0), W(":"), D(2, 0)>>
    ELSE raw

RECURSIVE TryFallbacks(_, _)
\* The loop over the fallback formats from index i on: the first format that
\* parses wins, NoDt when none does.
TryFallbacks(raw, i) ==
    LET OrNext(dt) == IF dt.ok THEN dt ELSE TryFallbacks(raw, i + 1)
    IN  IF i > Len(_TIMESTAMP_STRPTIME_FALLBACKS) THEN NoDt
        ELSE With(Strptime(raw, _TIMESTAMP_STRPTIME_FALLBACKS[i]), OrNext)

\* The datetime at minute `minute` (of any sign) of the day that lies days days
\* after 1970-01-01, with second s.
FromDayAndMinute(days, minute, s) ==
    LET shift == IF minute >= 0 THEN minute \div 1440 ELSE -((-minute + 1439) \div 1440)
        rem   == minute - shift * 1440
        WithDate(c) == Dt(c.y, c.mo, c.d, rem \div 60, rem % 60, s, TRUE, 0)
    IN  With(CivilFromDays(days + shift), WithDate)

\* dt.astimezone(timezone.utc).replace(microsecond=0) of an aware datetime; the
\* year of the result is outside 1..9999 where Python raises OverflowError.
ToUtc(dt) ==
    FromDayAndMinute(DaysFromCivil(dt.y, dt.mo, dt.d), dt.h * 60 + dt.mi - dt.off, dt.s)

\* IsoFormatZ with the month written without its leading zero.
IsoFormatUnpadded(dt) ==
    <<D(4, dt.y), W("-"), D(IF dt.mo < 10 THEN 1 ELSE 2, dt.mo), W("-"), D(2, dt.d), W("T"),
      D(2, dt.h), W(":"), D(2, dt.mi), W(":"), D(2, dt.s), W("Z")>>

\* IsoFormatZ without replace("+00:00", "Z"): dt_utc.isoformat() as it is.
IsoFormatOffset(dt) ==
    <<D(4, dt.y), W("-"), D(2, dt.mo), W("-"), D(2, dt.d), W("T"),
      D(2, dt.h), W(":"), D(2, dt.mi), W(":"), D(2, dt.s),
      W("+"), D(2, 0), W(":"), D(2, 0)>>

\* dt_utc.isoformat().replace("+00:00", "Z")
IsoFormatZ(dt) ==
    <<D(4, dt.y), W("-"), D(2, dt.mo), W("-"), D(2, dt.d), W("T"),
      D(2, dt.h), W(":"), D(2, dt.mi), W(":"), D(2, dt.s), W("Z")>>

\* Whether the trimmed value is "" or "null" in any letter case.
IsMissingTimestamp(raw) ==
    raw = <<>> \/ (Len(raw) = 1 /\ raw[1].w = 0 /\ Lower(raw[1].s) = "null")

\* The parsing of the trimmed value: fromisoformat first, a trailing "Z" read
\* as "+00:00", then the fallback formats.
ParseDatetime(raw) ==
    LET OrFallbacks(iso) == IF iso.ok THEN iso ELSE TryFallbacks(raw, 1)
    IN  With(FromIsoFormat(ZToOffset(raw)), OrFallbacks)

\* dt.replace(tzinfo=ZoneInfo("UTC")) when dt is naive.
AssumeTimezone(dt) == IF dt.aware THEN dt ELSE [dt EXCEPT !.aware = TRUE, !.off = 0]

\* The result for the trimmed value raw.  astimezone raises OverflowError when
\* the date in UTC lies outside the years 1..9999; nothing is returned then.
ParseTrimmed(raw) ==
    LET Formatted(utc) ==
            IF utc.y \in 1..9999
            THEN [ts |-> IsoFormatZ(utc), reason |-> NoReason, raised |-> ""]
            ELSE [ts |-> None, reason |-> NoReason, raised |-> "OverflowError"]
        Result(dt) ==
            IF ~dt.ok
            THEN [ts |-> None, reason |-> DROP_TIMESTAMP_INVALID, raised |-> ""]
            ELSE With(With(AssumeTimezone(dt), ToUtc), Formatted)
    IN  IF IsMissingTimestamp(raw)
        THEN [ts |-> None, reason |-> DROP_TIMESTAMP_MISSING, raised |-> ""]
        ELSE With(ParseDatetime(raw), Result)

\* parse_timestamp_to_utc_iso_z(value, assume_timezone="UTC"): the pair
\* (timestamp_utc, drop reason), one of them None, and the exception raised
\* instead of a return ("" when the function returns).
parse_timestamp_to_utc_iso_z(value) == With(Strip(value), ParseTrimmed)

\* --------------------------------------------- field_filtering.py (step 4)

KILL_FIELDS ==
    {"pricelevelid", "exchangerate", "pricingerrorcode", "skippricecalculation",
     "totaldiscountamount", "totaldiscountamount_base",
     "totallineitemdiscountamount", "totallineitemdiscountamount_base",
     "transactioncurrencyid", "isrevenuesystemcalculated"}

\* ---------------------------------------- bucket_classification.py (step 5)

\* BUCKET_FIELDS, in the order of the dictionary.
BucketNames == <<"L1_STAGE", "L2_MILESTONE", "L3_ADMIN", "KILL_NOISE">>

BUCKET_FIELDS(bucket) ==
    CASE bucket = "L1_STAGE" ->
           {"estimatedclosedate", "msdyn_forecastcategory", "statuscode", "statecode",
            "stepname", "processid", "salesstagecode", "actualclosedate", "salesstage",
            "closeprobability", "the000g_purchaseorderstatus"}
      [] bucket = "L2_MILESTONE" ->
           {"the000g_revenuetype", "completefinalproposal", "developproposal",
            "adx_readyfordistribution", "completeinternalreview",
            "identifycustomercontacts", "identifypursuitteam", "msdyn_ordertype",
            "new_oppotunitytype", "presentfinalproposal", "presentproposal",
            "adx_feedbackyet", "adx_partnercollaboration", "adx_partnercreated",
            "captureproposalfeedback", "confirminterest", "decisionmaker",
            "evaluatefit", "filedebrief", "identifycompetitors", "li_isinfluenced",
            "msdyn_gdproptout", "new_evaluatefit2", "opportunityratingcode",
            "pursuitdecision", "resolvefeedback", "the000g__revenuetype",
            "purchasetimeframe", "purchaseprocess", "new_contracttermmonths",
            "new_contractterm"}
      [] bucket = "L3_ADMIN" ->
           {"ownerid", "owningbusinessunit", "the000g_isrenewal", "customerid",
            "parentaccountid", "participatesinworkflow", "prioritycode",
            "sendthankyounote", "parentcontactid"}
      [] bucket = "KILL_NOISE" ->
           {"finaldecisiondate", "originatingleadid", "pricelevelid", "exchangerate",
            "pricingerrorcode", "skippricecalculation", "totaldiscountamount",
            "totaldiscountamount_base", "totallineitemdiscountamount",
            "totallineitemdiscountamount_base", "transactioncurrencyid",
            "isrevenuesystemcalculated"}

\* The level code the function returns with each bucket.
LevelOf(bucket) ==
    CASE bucket = "L1_STAGE" -> "L1"
      [] bucket = "L2_MILESTONE" -> "L2"
      [] bucket = "L3_ADMIN" -> "L3"
      [] bucket = "KILL_NOISE" -> "KILL"
      [] OTHER -> "UNKNOWN"

RECURSIVE ClassifyFrom(_, _)
\* The loop over BUCKET_FIELDS from bucket i on: the first table that holds the
\* lower-cased name decides.
ClassifyFrom(field_lower, i) ==
    IF i > Len(BucketNames) THEN <<"UNKNOWN", "UNKNOWN">>
    ELSE IF field_lower \in {Lower(f) : f \in BUCKET_FIELDS(BucketNames[i])}
    THEN <<BucketNames[i], LevelOf(BucketNames[i])>>
    ELSE ClassifyFrom(field_lower, i + 1)

\* classify_field without field_name.lower().
classify_field_as_written(field_name) == ClassifyFrom(field_name, 1)

\* classify_field(field_name): the pair (bucket, level).
classify_field(field_name) == ClassifyFrom(Lower(field_name), 1)

\* -------------------------------------------- code_translation.py (step 6)

TranslatedFields == {"statecode", "statuscode"}

\* TRANSLATION_TABLES[field]: code -> label.
TRANSLATION_TABLES(field) ==
    CASE field = "statecode" ->
           (<<D(1, 0)>> :> <<W("Open")>>) @@ (<<D(1, 1)>> :> <<W("Won")>>)
           @@ (<<D(1, 2)>> :> <<W("Lost")>>)
      [] field = "statuscode" ->
           (<<D(1, 1)>> :> <<W("In Progress")>>) @@ (<<D(1, 2)>> :> <<W("On Hold")>>)
           @@ (<<D(1, 3)>> :> <<W("Won")>>) @@ (<<D(1, 4)>> :> <<W("Canceled")>>)
           @@ (<<D(1, 5)>> :> <<W("Out-Sold")>>)

\* translate_value without field_name.lower().
translate_value_as_written(field_name, value) ==
    IF field_name \in TranslatedFields
    THEN LET translation_map == TRANSLATION_TABLES(field_name)
         IN  IF value \in DOMAIN translation_map THEN translation_map[value] ELSE value
    ELSE value

\* translate_value(field_name, value)
translate_value(field_name, value) ==
    LET field_lower == Lower(field_name)
    IN  IF field_lower \in TranslatedFields
        THEN LET translation_map == TRANSLATION_TABLES(field_lower)
             IN  IF value \in DOMAIN translation_map THEN translation_map[value] ELSE value
        ELSE value

\* ----------------------------------------- sequence_extraction.py (step 7)

\* "No sequence": Python's None, NaN once in the table.
NoSeq == -1

\* extract_sequence with the pattern r'^(\d+)': no hyphen asked for.
extract_leading_digits(field_name, new_value) ==
    IF Lower(field_name) # "stepname" THEN NoSeq
    ELSE IF Len(new_value) >= 1 /\ IsDigits(new_value[1])
    THEN new_value[1].v
    ELSE NoSeq

\* extract_sequence(field_name, new_value): re.match(r'^(\d+)-', new_value)
extract_sequence(field_name, new_value) ==
    IF Lower(field_name) # "stepname" THEN NoSeq
    ELSE IF /\ Len(new_value) >= 2
            /\ IsDigits(new_value[1])
            /\ IsChunk(new_value[2], "-")
    THEN new_value[1].v
    ELSE NoSeq

\* -------------------------------------- activity_name_derivation.py (step 8)

MilestoneFlags ==
    {"developproposal", "completefinalproposal", "completeinternalreview",
     "identifycustomercontacts", "identifypursuitteam", "presentfinalproposal",
     "presentproposal", "confirminterest", "decisionmaker", "evaluatefit",
     "filedebrief", "pursuitdecision", "captureproposalfeedback", "resolvefeedback",
     "identifycompetitors"}

\* f"{field} -> {value}" (the arrow is U+2192)
ArrowName(field, value) == <<W(field), W(" -> ")>> \o value

\* derive_activity_name without field.lower() in its two comparisons.
derive_activity_name_as_written(field, bucket, value) ==
    IF bucket = "L1_STAGE" THEN ArrowName(field, value)
    ELSE IF bucket = "L2_MILESTONE"
    THEN IF field \in MilestoneFlags
         THEN <<W(field), W(" completed")>>
         ELSE ArrowName(field, value)
    ELSE IF bucket = "L3_ADMIN"
    THEN IF field = "ownerid"
         THEN <<W("Owner"), W(" changed")>>
         ELSE <<W(field), W(" changed")>>
    ELSE ArrowName(field, value)

\* derive_activity_name(row) from the row's Field, bucket and value, where value
\* is translated_value (the column exists from step 6 on).
derive_activity_name(field, bucket, value) ==
    IF bucket = "L1_STAGE" THEN ArrowName(field, value)
    ELSE IF bucket = "L2_MILESTONE"
    THEN IF Lower(field) \in MilestoneFlags
         THEN <<W(field), W(" completed")>>
         ELSE ArrowName(field, value)
    ELSE IF bucket = "L3_ADMIN"
    THEN IF Lower(field) = "ownerid"
         THEN <<W("Owner"), W(" changed")>>
         ELSE <<W(field), W(" changed")>>
    ELSE ArrowName(field, value)

\* ------------------------------------------------------------------ tables

\* A table (DataFrame) is a sequence of rows; a row is a record whose fields
\* are its columns.  The six columns of the input file are held under the keys
\* of their roles (RoleKeys); the pipeline adds the columns case_id,
\* timestamp_utc, bucket, level, translated_value, sequence and activity_name.

\* row with the columns of extra added (or overwritten).
WithCols(row, extra) == extra @@ row

\* The values of column col, as a set.
ColumnValues(df, col) == {df[i][col] : i \in DOMAIN df}

\* The rows of df at the positions in keep, in their order.
RowsAt(df, keep) ==
    LET Kept(i) == Cardinality({j \in keep : j <= i})
        n == Cardinality(keep)
    IN  [k \in 1..n |-> df[CHOOSE i \in keep : Kept(i) = k]]

RECURSIVE SortStringsDescending(_)
\* sorted(S, reverse=True) for a set of strings.
SortStringsDescending(S) ==
    IF S = {} THEN <<>>
    ELSE LET m == CHOOSE x \in S : \A y \in S \ {x} : StrLess(y, x)
         IN  <<m>> \o SortStringsDescending(S \ {m})

RECURSIVE SortStrings(_)
\* sorted(S) for a set of strings.
SortStrings(S) ==
    IF S = {} THEN <<>>
    ELSE LET m == CHOOSE x \in S : \A y \in S \ {x} : StrLess(x, y)
         IN  <<m>> \o SortStrings(S \ {m})

\* ------------------------------------------ single_event_filter.py (step 3)

\* df[case_id_column].value_counts()[c]
CaseEventCount(df, case_id_column, c) ==
    Cardinality({i \in DOMAIN df : df[i][case_id_column] = c})

\* remove_single_event_cases with the threshold 3 instead of 2.
remove_cases_below_three_events(df, case_id_column) ==
    LET single_event_cases ==
            {c \in ColumnValues(df, case_id_column) :
                CaseEventCount(df, case_id_column, c) < 3}
        single_event_df ==
            RowsAt(df, {i \in DOMAIN df : df[i][case_id_column] \in single_event_cases})
        filtered_df ==
            RowsAt(df, {i \in DOMAIN df : df[i][case_id_column] \notin single_event_cases})
    IN  [filtered_df |-> filtered_df,
         single_event_df |-> single_event_df,
         num_cases |-> Cardinality(single_event_cases),
         num_rows |-> Len(single_event_df)]

\* remove_single_event_cases(df, case_id_column): the filtered table, the rows
\* of the single-event cases, and the two counts the function returns.
remove_single_event_cases(df, case_id_column) ==
    LET single_event_cases ==
            {c \in ColumnValues(df, case_id_column) :
                CaseEventCount(df, case_id_column, c) < 2}
        single_event_df ==
            RowsAt(df, {i \in DOMAIN df : df[i][case_id_column] \in single_event_cases})
        filtered_df ==
            RowsAt(df, {i \in DOMAIN df : df[i][case_id_column] \notin single_event_cases})
    IN  [filtered_df |-> filtered_df,
         single_event_df |-> single_event_df,
         num_cases |-> Cardinality(single_event_cases),
         num_rows |-> Len(single_event_df)]

\* --------------------------------------------- field_filtering.py (step 4)

\* filter_kill_fields with the mask not negated: the rows of the noise fields
\* are the ones kept.
filter_keeping_kill_fields(df, field_column) ==
    LET df_filtered == RowsAt(df, {i \in DOMAIN df : df[i][field_column] \in KILL_FIELDS})
    IN  [df_filtered |-> df_filtered, dropped_count |-> Len(df) - Len(df_filtered)]

\* filter_kill_fields comparing the lower-cased field with the deny-list.
filter_lowercased_kill_fields(df, field_column) ==
    LET df_filtered ==
            RowsAt(df, {i \in DOMAIN df : Lower(df[i][field_column]) \notin KILL_FIELDS})
    IN  [df_filtered |-> df_filtered, dropped_count |-> Len(df) - Len(df_filtered)]

\* filter_kill_fields(df, field_column): the filtered table and the number of
\* rows dropped.
filter_kill_fields(df, field_column) ==
    LET df_filtered == RowsAt(df, {i \in DOMAIN df : df[i][field_column] \notin KILL_FIELDS})
    IN  [df_filtered |-> df_filtered, dropped_count |-> Len(df) - Len(df_filtered)]

\* ------------------------------------------- create_aggregation.py (step 9)

\* The positions of the Create rows of case c.
CreateGroup(df, operation_column, c) ==
    {i \in DOMAIN df : df[i][operation_column] = "Create" /\ df[i].case_id = c}

\* EarliestOf with the group sorted descending: the rows that carry the
\* greatest timestamp_utc.
LatestOf(df, group) ==
    {i \in group : \A j \in group : ~StrLess(df[i].timestamp_utc, df[j].timestamp_utc)}

\* The positions group.sort_values(by=['timestamp_utc']).iloc[0] can be: the
\* sort is pandas' default quicksort, which is not stable, so any row of the
\* group that carries the least timestamp_utc may come first.
EarliestOf(df, group) ==
    {i \in group : \A j \in group : ~StrLess(df[j].timestamp_utc, df[i].timestamp_utc)}

\* The cases that have a Create row.
CreateCases(df, operation_column) ==
    {df[i].case_id : i \in {j \in DOMAIN df : df[j][operation_column] = "Create"}}

\* The choices of a representative row for every case that has a Create row.
RepresentativeChoices(df, operation_column) ==
    {pick \in [CreateCases(df, operation_column) -> DOMAIN df] :
        \A c \in DOMAIN pick :
            pick[c] \in EarliestOf(df, CreateGroup(df, operation_column, c))}

\* group['sequence'].min(): the least sequence of the group, NaN skipped.
MinSequence(df, group) ==
    LET present == {df[i].sequence : i \in group} \ {NoSeq}
    IN  IF present = {} THEN NoSeq
        ELSE CHOOSE m \in present : \A x \in present : m <= x

\* AggregatedRow with the tier of a stage event given to the aggregated row.
AggregatedRowAsStage(df, group, rep) ==
    LET agg_row == WithCols(df[rep], [activity_name |-> <<W("Case Created")>>,
                                      bucket |-> "L1_STAGE", level |-> "L1"])
    IN  IF agg_row.sequence # NoSeq
        THEN WithCols(agg_row, [sequence |-> MinSequence(df, group)])
        ELSE agg_row

\* The aggregated row of one case: the representative with its activity_name
\* overwritten and, when it carries a sequence, the least sequence of the group.
AggregatedRow(df, group, rep) ==
    LET agg_row == WithCols(df[rep], [activity_name |-> <<W("Case Created")>>])
    IN  IF agg_row.sequence # NoSeq
        THEN WithCols(agg_row, [sequence |-> MinSequence(df, group)])
        ELSE agg_row

\* aggregate_create_operations with the aggregated rows concatenated to the
\* whole table instead of the rows that are not Create.
aggregate_onto_whole_table(df, operation_column, pick) ==
    LET cases == SortStrings(DOMAIN pick)
        aggregated_creates ==
            [k \in DOMAIN cases |->
                AggregatedRow(df, CreateGroup(df, operation_column, cases[k]), pick[cases[k]])]
    IN  IF DOMAIN pick = {} THEN df ELSE aggregated_creates \o df

\* aggregate_create_operations(df, operation_column), with pick the row that
\* came first in each group's sort.
aggregate_create_operations(df, operation_column, pick) ==
    LET other_df == RowsAt(df, {i \in DOMAIN df : df[i][operation_column] # "Create"})
        cases == SortStrings(DOMAIN pick)
        aggregated_creates ==
            [k \in DOMAIN cases |->
                AggregatedRow(df, CreateGroup(df, operation_column, cases[k]), pick[cases[k]])]
    IN  IF DOMAIN pick = {} THEN df ELSE aggregated_creates \o other_df

\* ---------------------------------------------- event_sorting.py (step 10)

\* _l1_statuscode_priority of a row; has_field says whether the table has a
\* column named 'Field' (and 'bucket'), field_key is where that column's data is.
StatuscodePriority(row, has_field, field_key) ==
    IF has_field
    THEN IF row.bucket = "L1_STAGE" /\ Lower(row[field_key]) = "statuscode" THEN 0 ELSE 1
    ELSE 1

\* _has_sequence from notna() instead of isna(): 1 when the row has a sequence.
HasSequenceFlagInverted(row) == IF row.sequence = NoSeq THEN 0 ELSE 1

\* _has_sequence: 0 when the row has a sequence, 1 when it has none.
HasSequenceFlag(row) == IF row.sequence = NoSeq THEN 1 ELSE 0

\* _sequence_value with its sign changed: the sort descends on the sequence.
SequenceValueDescending(row) == IF row.sequence = NoSeq THEN 0 ELSE -row.sequence

\* _sequence_value: the sequence, 0 when there is none.
SequenceValue(row) == IF row.sequence = NoSeq THEN 0 ELSE row.sequence

\* SortKey with timestamp_utc left out of the columns of sort_values.
SortKeyWithoutTimestamp(df, i, has_field, field_key) ==
    [case_id |-> df[i].case_id,
     timestamp_utc |-> <<>>,
     priority |-> StatuscodePriority(df[i], has_field, field_key),
     has_sequence |-> HasSequenceFlag(df[i]),
     sequence_value |-> SequenceValue(df[i]),
     row_index |-> i]

\* The sort key of the row at position i: the six columns of sort_values.
SortKey(df, i, has_field, field_key) ==
    [case_id |-> df[i].case_id,
     timestamp_utc |-> df[i].timestamp_utc,
     priority |-> StatuscodePriority(df[i], has_field, field_key),
     has_sequence |-> HasSequenceFlag(df[i]),
     sequence_value |-> SequenceValue(df[i]),
     row_index |-> i]

\* Whether key a sorts strictly before key b: the columns compared in order.
KeyLess(a, b) ==
    IF a.case_id # b.case_id THEN StrLess(a.case_id, b.case_id)
    ELSE IF a.timestamp_utc # b.timestamp_utc
    THEN StrLess(a.timestamp_utc, b.timestamp_utc)
    ELSE IF a.priority # b.priority THEN a.priority < b.priority
    ELSE IF a.has_sequence # b.has_sequence THEN a.has_sequence < b.has_sequence
    ELSE IF a.sequence_value # b.sequence_value THEN a.sequence_value < b.sequence_value
    ELSE a.row_index < b.row_index

RECURSIVE SortedPositions(_, _, _, _)
\* The positions in left, ascending by sort key.
SortedPositions(df, left, has_field, field_key) ==
    IF left = {} THEN <<>>
    ELSE LET m == CHOOSE i \in left : \A j \in left \ {i} :
                      KeyLess(SortKey(df, i, has_field, field_key),
                              SortKey(df, j, has_field, field_key))
         IN  <<m>> \o SortedPositions(df, left \ {m}, has_field, field_key)

\* sort_events(df): the helper columns are added, the table sorted, the helper
\* columns dropped and the index reset.
sort_events(df, has_field, field_key) ==
    LET order == SortedPositions(df, DOMAIN df, has_field, field_key)
    IN  [k \in DOMAIN order |-> df[order[k]]]

\* ----------------------------------------- event_deduplication.py (step 11)

\* The dedup key of a row: its values in the key columns.
DedupKey(row, key_fields) == [k \in DOMAIN key_fields |-> row[key_fields[k]]]

\* deduplicate_events comparing every row with the row right before it only.
deduplicate_adjacent_events(df, key_fields) ==
    LET first == {i \in DOMAIN df :
                    i = 1 \/ DedupKey(df[i - 1], key_fields) # DedupKey(df[i], key_fields)}
        df_deduped == RowsAt(df, first)
    IN  [df_deduped |-> df_deduped, duplicates_removed |-> Len(df) - Len(df_deduped)]

\* deduplicate_events dropping the first duplicate it meets and no other.
deduplicate_one_event(df, key_fields) ==
    LET dup == {i \in DOMAIN df :
                    \E j \in 1..(i - 1) :
                        DedupKey(df[j], key_fields) = DedupKey(df[i], key_fields)}
        df_deduped ==
            IF dup = {} THEN df
            ELSE RowsAt(df, DOMAIN df \ {CHOOSE i \in dup : \A j \in dup : i <= j})
    IN  [df_deduped |-> df_deduped, duplicates_removed |-> Len(df) - Len(df_deduped)]

\* deduplicate_events with keep='last': the last row of every key is kept.
deduplicate_keeping_last(df, key_fields) ==
    LET last == {i \in DOMAIN df :
                    \A j \in (i + 1)..Len(df) :
                        DedupKey(df[j], key_fields) # DedupKey(df[i], key_fields)}
        df_deduped == RowsAt(df, last)
    IN  [df_deduped |-> df_deduped, duplicates_removed |-> Len(df) - Len(df_deduped)]

\* deduplicate_events(df, key_fields): drop_duplicates(keep='first') and the
\* number of rows it removed.
deduplicate_events(df, key_fields) ==
    LET first == {i \in DOMAIN df :
                    \A j \in 1..(i - 1) :
                        DedupKey(df[j], key_fields) # DedupKey(df[i], key_fields)}
        df_deduped == RowsAt(df, first)
    IN  [df_deduped |-> df_deduped, duplicates_removed |-> Len(df) - Len(df_deduped)]

\* ------------------------------------------------- xes_export.py (step 12)

\* _TIMESTAMP_UTC_RE: ^\d{4}-\d{2}-\d{2}T\d{2}:\d{2}:\d{2}(?:\.\d+)?Z$
MatchesTimestampUtcRe(value) ==
    LET sh == Shape(value)
        whole == <<"d", "-", "d", "-", "d", "T", "d", ":", "d", ":", "d">>
    IN  /\ sh \in {whole \o <<"Z">>, whole \o <<".", "d", "Z">>}
        /\ value[1].w = 4
        /\ \A i \in {3, 5, 7, 9, 11} : value[i].w = 2

\* _validate_timestamp_utc checking value.strip() instead of value.
_validate_stripped_timestamp(value) ==
    LET s == Strip(value)
    IN  IF s = <<>> \/ ~IsChunk(s[Len(s)], "Z") THEN "not ending with Z"
        ELSE IF ~MatchesTimestampUtcRe(s) THEN "not strict ISO-8601"
        ELSE LET dt == FromIsoFormat(ZToOffset(s))
             IN  IF ~dt.ok THEN "not a valid datetime"
                 ELSE IF ~dt.aware \/ dt.off # 0 THEN "not UTC"
                 ELSE "ok"

\* _validate_timestamp_utc(value): "ok", or the check that raised XESExportError.
_validate_timestamp_utc(value) ==
    IF value # Strip(value) THEN "surrounding whitespace"
    ELSE IF value = <<>> \/ ~IsChunk(value[Len(value)], "Z") THEN "not ending with Z"
    ELSE IF ~MatchesTimestampUtcRe(value) THEN "not strict ISO-8601"
    ELSE LET dt == FromIsoFormat(ZToOffset(value))
         IN  IF ~dt.ok THEN "not a valid datetime"
             ELSE IF ~dt.aware \/ dt.off # 0 THEN "not UTC"
             ELSE "ok"

\* The event element written for a row: concept:name and time:timestamp.
XesEvent(row) == [name |-> row.activity_name, timestamp |-> row.timestamp_utc]

\* The trace element of one case: its concept:name and the events of the case
\* in the order of the rows of df_subset.
XesTrace(df_subset, case_id) ==
    [name |-> case_id,
     events |-> LET case_events == RowsAt(df_subset,
                                     {i \in DOMAIN df_subset : df_subset[i].case_id = case_id})
                IN  [k \in DOMAIN case_events |-> XesEvent(case_events[k])]]

\* _export_single_xes(df_subset, ...): the timestamps are validated in row
\* order, the first failure raises; otherwise the log is built and written.
_export_single_xes(df_subset) ==
    LET bad == {i \in DOMAIN df_subset :
                    _validate_timestamp_utc(df_subset[i].timestamp_utc) # "ok"}
        case_ids_sorted == SortStrings(ColumnValues(df_subset, "case_id"))
    IN  IF bad # {}
        THEN [raised |-> TRUE,
              row |-> (CHOOSE i \in bad : \A j \in bad : i <= j) - 1,
              log |-> <<>>]
        ELSE [raised |-> FALSE,
              row |-> 0,
              log |-> [k \in DOMAIN case_ids_sorted |->
                          XesTrace(df_subset, case_ids_sorted[k])]]

\* The buckets of export_to_xes, in the order of the dictionary: level codes.
ExportLevels == <<"L1", "L2", "L3">>

\* A trace file that has not been written.
NoFile == [written |-> FALSE, log |-> <<>>]

\* ------------------------------------------------ main.py: schema (load)

Roles == <<"timestamp", "case_id", "field", "previous_value", "new_value", "operation">>

\* The key under which a row holds the data of the i-th column of the file.
RoleKeys == <<"timestamp", "case", "field", "prev", "newv", "op">>

COLUMN_ALIASES(role) ==
    CASE role = "timestamp" ->
           <<"Timestamp", "Date logged", "Date", "Logged At", "Created On">>
      [] role = "case_id" -> <<"Anon Item ID", "Item ID", "Case ID", "CaseId">>
      [] role = "field" -> <<"Field", "Field Name", "Attribute">>
      [] role = "previous_value" -> <<"Previous value", "Old value", "Previous Value">>
      [] role = "new_value" -> <<"New value", "New Value">>
      [] role = "operation" -> <<"Operation", "Action", "Change Type">>

\* _normalize_column_name(name): the byte-order mark removed, white space
\* trimmed and collapsed.
_normalize_column_name(name) ==
    CASE name = "BOM+Date logged" -> "Date logged"
      [] name = " When " -> "When"
      [] name = " Field  Name " -> "Field Name"
      [] OTHER -> name

\* _canonicalize_for_match(name): lower case, everything but a-z0-9 removed.
_canonicalize_for_match(name) ==
    LET normalized == _normalize_column_name(name)
    IN  CASE normalized = "Timestamp" -> "timestamp"
          [] normalized = "Date logged" -> "datelogged"
          [] normalized = "Date" -> "date"
          [] normalized = "Logged At" -> "loggedat"
          [] normalized = "Created On" -> "createdon"
          [] normalized = "Anon Item ID" -> "anonitemid"
          [] normalized = "Item ID" -> "itemid"
          [] normalized = "Case ID" -> "caseid"
          [] normalized = "CaseId" -> "caseid"
          [] normalized = "Field" -> "field"
          [] normalized = "field" -> "field"
          [] normalized = "Field Name" -> "fieldname"
          [] normalized = "Attribute" -> "attribute"
          [] normalized = "Previous value" -> "previousvalue"
          [] normalized = "Previous Value" -> "previousvalue"
          [] normalized = "Old value" -> "oldvalue"
          [] normalized = "New value" -> "newvalue"
          [] normalized = "New Value" -> "newvalue"
          [] normalized = "Operation" -> "operation"
          [] normalized = "Action" -> "action"
          [] normalized = "Change Type" -> "changetype"
          [] normalized = "Actor Date Logged" -> "actordatelogged"
          [] normalized = "When" -> "when"
          [] normalized = "Fld" -> "fld"
          [] normalized = "Op" -> "op"
          [] OTHER -> normalized

\* A role _resolve_columns could not match.
Unresolved == ""

\* dict lookup in {key(col): col for col in columns}: the last column with the key.
ActualFor(columns, Key(_), k) ==
    LET hits == {i \in DOMAIN columns : Key(columns[i]) = k}
    IN  IF hits = {} THEN Unresolved
        ELSE columns[CHOOSE i \in hits : \A j \in hits : j <= i]

RECURSIVE ResolveAlias(_, _, _)
\* The loop over the aliases of a role from alias i on: the first alias that
\* matches a column by its normalized or by its canonical form decides.
ResolveAlias(columns, aliases, i) ==
    IF i > Len(aliases) THEN Unresolved
    ELSE LET by_name == ActualFor(columns, _normalize_column_name,
                                  _normalize_column_name(aliases[i]))
             by_key  == ActualFor(columns, _canonicalize_for_match,
                                  _canonicalize_for_match(aliases[i]))
         IN  IF by_name # Unresolved THEN by_name
             ELSE IF by_key # Unresolved THEN by_key
             ELSE ResolveAlias(columns, aliases, i + 1)

\* Whether a column name holds both "date" and "log", in any letter case.
MentionsDateAndLog(name) == _normalize_column_name(name) \in {"Date logged", "Actor Date Logged"}

\* _resolve_columns(df): role -> actual column, Unresolved for a role in missing.
_resolve_columns(columns) ==
    LET resolved == [r \in {Roles[i] : i \in DOMAIN Roles} |->
                        ResolveAlias(columns, COLUMN_ALIASES(r), 1)]
        timestamp_candidates == {i \in DOMAIN columns : MentionsDateAndLog(columns[i])}
    IN  IF resolved["timestamp"] = Unresolved /\ Cardinality(timestamp_candidates) = 1
        THEN [resolved EXCEPT !["timestamp"] =
                  columns[CHOOSE i \in timestamp_candidates : TRUE]]
        ELSE resolved

\* The roles _resolve_columns reports as missing.
MissingRoles(resolved) == {r \in DOMAIN resolved : resolved[r] = Unresolved}

\* The list missing of _resolve_columns with only its first role.
FirstMissingKey(resolved) ==
    LET all == SelectSeq(Roles, LAMBDA key : resolved[key] = Unresolved)
    IN  IF all = <<>> THEN <<>> ELSE <<all[1]>>

\* The list missing of _resolve_columns, which the KeyError's message shows.
MissingKeys(resolved) == SelectSeq(Roles, LAMBDA key : resolved[key] = Unresolved)

\* ------------------------------------------------------------------ inputs

\* Case identifiers "C2" and "C10" ("C10" sorts before "C2").
CaseC2 == <<W("C"), D(1, 2)>>

CaseC10 == <<W("C"), D(2, 10)>>

CaseIds == {CaseC2, CaseC10}

\* "15/03/2024 10:00"
RawTsSlash == <<D(2, 15), W("/"), D(2, 3), W("/"), D(4, 2024), W(" "), D(2, 10), W(":"), D(2, 0)>>

\* "2024-03-15T09:00:00Z"
RawTsIso ==
    <<D(4, 2024), W("-"), D(2, 3), W("-"), D(2, 15), W("T"),
      D(2, 9), W(":"), D(2, 0), W(":"), D(2, 0), W("Z")>>

\* "2024-02-31T10:00:00Z": no such day.
RawTsFeb31 == [RawTsIso EXCEPT ![3] = D(2, 2), ![5] = D(2, 31), ![7] = D(2, 10)]

\* "2024-03-15T09:00:00Z" as a timestamp_utc.
UtcNine == RawTsIso

\* "2024-03-15T10:00:00Z"
UtcTen ==
    <<D(4, 2024), W("-"), D(2, 3), W("-"), D(2, 15), W("T"),
      D(2, 10), W(":"), D(2, 0), W(":"), D(2, 0), W("Z")>>

\* " 2024-03-15T10:00:00Z": a leading blank.
UtcBlank == <<W(" ")>> \o UtcTen

\* "2024-13-15T10:00:00Z": no such month.
UtcMonth13 == [UtcTen EXCEPT ![3] = D(2, 13)]

\* The values the timestamp column can hold: blank and null values, ISO-8601
\* strings with and without an offset or a time, strings of each fallback
\* format, strings no format parses, and dates at the ends of the calendar.
RawTimestamps ==
    {
      <<>>,    \* ""
      <<W("null")>>,    \* "null"
      <<W("NULL")>>,    \* "NULL"
      <<W("nul")>>,    \* "nul"
      <<D(4, 2024), W("-"), D(2, 3), W("-"), D(2, 15), W("T"), D(2, 9), W(":"), D(2, 0), W(":"), D(2, 0), W("Z")>>,    \* "2024-03-15T09:00:00Z"
      <<D(4, 2024), W("-"), D(2, 3), W("-"), D(2, 15), W("T"), D(2, 9), W(":"), D(2, 0), W(":"), D(2, 0), W("+"), D(2, 5), W(":"), D(2, 30)>>,    \* "2024-03-15T09:00:00+05:30"
      <<D(4, 2023), W("-"), D(2, 12), W("-"), D(2, 31), W("T"), D(2, 23), W(":"), D(2, 30), W(":"), D(2, 0), W("-"), D(2, 1), W(":"), D(2, 0)>>,    \* "2023-12-31T23:30:00-01:00"
      <<D(4, 2024), W("-"), D(2, 3), W("-"), D(2, 15)>>,    \* "2024-03-15"
      <<D(4, 2024), W("-"), D(2, 3), W("-"), D(2, 15), W("T"), D(2, 9), W(":"), D(2, 0), W(":"), D(2, 0), W("."), D(6, 999999), W("Z")>>,    \* "2024-03-15T09:00:00.999999Z"
      <<D(4, 2024), W("-"), D(2, 2), W("-"), D(2, 31), W("T"), D(2, 10), W(":"), D(2, 0), W(":"), D(2, 0), W("Z")>>,    \* "2024-02-31T10:00:00Z"
      <<D(4, 2024), W("-"), D(2, 3), W("-"), D(2, 15), W("T"), D(2, 24), W(":"), D(2, 0), W(":"), D(2, 0), W("Z")>>,    \* "2024-03-15T24:00:00Z"
      <<D(4, 2024), W("-"), D(2, 11), W("-"), D(2, 5), W("T"), D(2, 10), W(":"), D(2, 0), W(":"), D(2, 0), W("Z")>>,    \* "2024-11-05T10:00:00Z"
      <<D(4, 2024), W("-"), D(2, 3), W("-"), D(2, 15), W("T"), D(2, 10), W(":"), D(2, 0), W(":"), D(2, 0), W("+"), D(2, 0), W(":"), D(2, 0)>>,    \* "2024-03-15T10:00:00+00:00"
      <<D(4, 2024), W("-"), D(2, 3), W("-"), D(2, 15), W("T"), D(2, 9)>>,    \* "2024-03-15T09"
      <<D(4, 2024), W("-"), D(2, 3), W("-"), D(2, 15), W(" "), D(2, 10), W(":"), D(2, 0)>>,    \* "2024-03-15 10:00"
      <<D(4, 2024), W("-"), D(2, 3), W("-"), D(2, 15), W("Z")>>,    \* "2024-03-15Z"
      <<D(4, 2024), W("/"), D(2, 3), W("/"), D(2, 15), W(" "), D(2, 9), W(":"), D(2, 0), W(":"), D(2, 0)>>,    \* "2024/03/15 09:00:00"
      <<D(2, 15), W("/"), D(2, 3), W("/"), D(4, 2024), W(" "), D(2, 9), W(":"), D(2, 0), W(":"), D(2, 0), W(" "), W("PM")>>,    \* "15/03/2024 09:00:00 PM"
      <<D(2, 15), W("/"), D(2, 3), W("/"), D(4, 2024), W(" "), D(1, 9), W(":"), D(2, 0), W(" "), W("am")>>,    \* "15/03/2024 9:00 am"
      <<D(2, 15), W("/"), D(2, 3), W("/"), D(4, 2024), W(" "), D(2, 12), W(":"), D(2, 30), W(" "), W("AM")>>,    \* "15/03/2024 12:30 AM"
      <<D(2, 15), W("/"), D(2, 3), W("/"), D(4, 2024), W(" "), D(2, 21), W(":"), D(2, 0), W(":"), D(2, 0)>>,    \* "15/03/2024 21:00:00"
      <<D(2, 15), W("/"), D(2, 3), W("/"), D(4, 2024), W(" "), D(2, 10), W(":"), D(2, 0)>>,    \* "15/03/2024 10:00"
      <<D(1, 1), W("/"), D(2, 29), W("/"), D(2, 26), W(" "), D(1, 0), W(":"), D(2, 0)>>,    \* "1/29/26 0:00"
      <<D(1, 3), W("/"), D(2, 15), W("/"), D(2, 24), W(" "), D(2, 10), W(":"), D(2, 0)>>,    \* "3/15/24 10:00"
      <<D(2, 13), W("/"), D(2, 11), W("/"), D(4, 2024), W(" "), D(2, 13), W(":"), D(2, 0), W(":"), D(2, 0), W(" "), W("PM")>>,    \* "13/11/2024 13:00:00 PM"
      <<D(2, 31), W("/"), D(2, 2), W("/"), D(4, 2024), W(" "), D(2, 10), W(":"), D(2, 0)>>,    \* "31/02/2024 10:00"
      <<D(4, 1), W("-"), D(2, 1), W("-"), D(2, 1), W("T"), D(2, 0), W(":"), D(2, 0), W(":"), D(2, 0), W("+"), D(2, 5), W(":"), D(2, 0)>>,    \* "0001-01-01T00:00:00+05:00"
      <<D(4, 9999), W("-"), D(2, 12), W("-"), D(2, 31), W("T"), D(2, 23), W(":"), D(2, 59), W(":"), D(2, 59), W("-"), D(2, 5), W(":"), D(2, 0)>>,    \* "9999-12-31T23:59:59-05:00"
      <<D(4, 1), W("-"), D(2, 1), W("-"), D(2, 1), W("T"), D(2, 0), W(":"), D(2, 0), W(":"), D(2, 0)>>,    \* "0001-01-01T00:00:00"
      <<D(4, 999), W("-"), D(2, 12), W("-"), D(2, 31), W("T"), D(2, 23), W(":"), D(2, 59), W(":"), D(2, 59), W("Z")>>,    \* "0999-12-31T23:59:59Z"
      <<D(4, 1), W("-"), D(2, 1), W("-"), D(2, 1), W("T"), D(2, 5), W(":"), D(2, 0), W(":"), D(2, 0), W("+"), D(2, 5), W(":"), D(2, 0)>> }    \* "0001-01-01T05:00:00+05:00"

\* A row of the input file: the data of the six columns.
RawRow(case, timestamp, field, newv, op) ==
    [timestamp |-> timestamp, case |-> case, field |-> field, prev |-> <<>>,
     newv |-> newv, op |-> op]

\* The rows an input file is made of.
RawRows ==
    UNION {
      { RawRow(c, RawTsSlash, "stepname", <<D(2, 14), W("-"), W("Qualify")>>, "Create"),
        RawRow(c, RawTsIso, "ownerid", <<W("alice")>>, "Create"),
        RawRow(c, RawTsSlash, "statuscode", <<D(1, 1)>>, "Update"),
        RawRow(c, RawTsSlash, "pricelevelid", <<W("x")>>, "Update"),
        RawRow(c, <<>>, "stepname", <<D(1, 2), W("-"), W("Develop")>>, "Update"),
        RawRow(c, RawTsFeb31, "statuscode", <<D(1, 2)>>, "Update"),
        RawRow(c, RawTsIso, "ownerid", <<W("bob")>>, "Update") } : c \in CaseIds }

\* The rows of a file of noise fields: fields of the deny-list, a field that
\* differs from one in letter case, fields of the KILL_NOISE table outside the
\* deny-list, and fields of two tiers that are exported.
NoiseRows ==
    { RawRow(CaseC2, RawTsIso, "pricelevelid", <<W("x")>>, "Update"),
      RawRow(CaseC2, RawTsIso, "PriceLevelId", <<W("x")>>, "Update"),
      RawRow(CaseC2, RawTsSlash, "finaldecisiondate", <<W("x")>>, "Update"),
      RawRow(CaseC2, RawTsSlash, "finaldecisiondate", <<W("x")>>, "Delete"),
      RawRow(CaseC2, RawTsSlash, "originatingleadid", <<W("x")>>, "Create"),
      RawRow(CaseC2, RawTsIso, "stepname", <<D(2, 14), W("-"), W("Qualify")>>, "Create"),
      RawRow(CaseC2, RawTsIso, "ownerid", <<W("bob")>>, "Update"),
      RawRow(CaseC10, RawTsIso, "finaldecisiondate", <<W("x")>>, "Update"),
      RawRow(CaseC10, RawTsSlash, "exchangerate", <<D(1, 1)>>, "Update") }

\* The tables of at most MaxRows rows over a set of rows.
Tables(rows) == UNION {[1..n -> rows] : n \in 0..MaxRows}

\* The names the file can give its column of field names.
FieldColumnNames == {"Field", "Field Name", "Attribute", "field"}

\* The header of a file whose field column is named name.
Header(name) ==
    <<"Date logged", "Anon Item ID", name, "Previous value", "New value", "Operation">>

\* The header of a file by the names of its timestamp, field and operation
\* columns.
HeaderOf(timestamp, field, operation) ==
    <<timestamp, "Anon Item ID", field, "Previous value", "New value", operation>>

\* The headers dataset.csv can have: the field column under each of its names,
\* a timestamp column only the fallback finds, and columns no alias matches.
Headers ==
    {Header(name) : name \in FieldColumnNames}
        \cup {HeaderOf("Actor Date Logged", "Field", "Operation"),
              HeaderOf("Date logged", "Fld", "Operation"),
              HeaderOf(" When ", "Fld", "Op"),
              HeaderOf(" When ", "Field", "Operation")}

\* A canonical event: a row with the columns every stage up to step 8 adds,
\* each computed by that stage's function.
Event(case, timestamp_utc, field, newv, op) ==
    LET cls == classify_field(field)
        translated == translate_value(field, newv)
    IN  [timestamp |-> timestamp_utc, case |-> case, field |-> field, prev |-> <<>>,
         newv |-> newv, op |-> op,
         timestamp_utc |-> timestamp_utc, case_id |-> case,
         bucket |-> cls[1], level |-> cls[2],
         translated_value |-> translated,
         sequence |-> extract_sequence(field, newv),
         activity_name |-> derive_activity_name(field, cls[1], translated)]

\* The events the tables handed to a single stage are made of; some carry a
\* timestamp_utc the exporter must reject.
Events ==
    UNION {
      { Event(c, UtcTen, "stepname", <<D(2, 14), W("-"), W("Qualify")>>, "Update"),
        Event(c, UtcTen, "stepname", <<D(1, 2), W("-"), W("Develop")>>, "Create"),
        Event(c, UtcNine, "statuscode", <<D(1, 1)>>, "Create"),
        Event(c, UtcTen, "ownerid", <<W("alice")>>, "Create"),
        Event(c, UtcTen, "ownerid", <<W("bob")>>, "Update"),
        Event(c, UtcBlank, "ownerid", <<W("alice")>>, "Update"),
        Event(c, UtcMonth13, "finaldecisiondate", <<W("x")>>, "Update") } : c \in CaseIds }

\* The events the tables handed to the sorter are made of: those of Events and
\* a status-code event at the timestamp of the events that carry a sequence.
SortEvents ==
    Events \cup {Event(c, UtcTen, "statuscode", <<D(1, 2)>>, "Update") : c \in CaseIds}

\* The events the tables handed to the aggregator are made of when its result
\* goes on to the export: Create rows of every level, and a row of an update.
CreateEvents ==
    UNION {
      { Event(c, UtcNine, "statuscode", <<D(1, 1)>>, "Create"),
        Event(c, UtcTen, "stepname", <<D(1, 2), W("-"), W("Develop")>>, "Create"),
        Event(c, UtcNine, "confirminterest", <<W("yes")>>, "Create"),
        Event(c, UtcTen, "ownerid", <<W("alice")>>, "Create"),
        Event(c, UtcNine, "finaldecisiondate", <<W("x")>>, "Create"),
        Event(c, UtcTen, "description", <<W("x")>>, "Create"),
        Event(c, UtcTen, "ownerid", <<W("bob")>>, "Update") } : c \in CaseIds }

\* The events the tables handed to the exporter are made of: events of every
\* level, some with a timestamp_utc the exporter must reject.
ExportEvents ==
    UNION {
      { Event(c, UtcTen, "stepname", <<D(2, 14), W("-"), W("Qualify")>>, "Update"),
        Event(c, UtcNine, "statuscode", <<D(1, 1)>>, "Create"),
        Event(c, UtcTen, "confirminterest", <<W("yes")>>, "Update"),
        Event(c, UtcTen, "ownerid", <<W("bob")>>, "Update"),
        Event(c, UtcBlank, "ownerid", <<W("alice")>>, "Update"),
        Event(c, UtcMonth13, "finaldecisiondate", <<W("x")>>, "Update"),
        Event(c, UtcNine, "description", <<W("x")>>, "Update") } : c \in CaseIds }

\* The field names of the rows handed to the stages that work row by row:
\* names of every table of the taxonomy and of none, some in mixed case.
FieldNames ==
    {"stepname", "StepName", "statuscode", "StatusCode", "statecode", "StateCode",
     "confirminterest", "ConfirmInterest", "msdyn_ordertype", "ownerid", "OwnerId",
     "customerid", "PriceLevelId", "finaldecisiondate", "description"}

\* The new values of those rows: "14-Qualify", "007-x", "14", "14 -Qualify",
\* "Qualify-14", "-5", "1", "01", "9" and "".
NewValues ==
    {<<D(2, 14), W("-"), W("Qualify")>>, <<D(3, 7), W("-"), W("x")>>, <<D(2, 14)>>,
     <<D(2, 14), W(" "), W("-"), W("Qualify")>>, <<W("Qualify"), W("-"), D(2, 14)>>,
     <<W("-"), D(1, 5)>>, <<D(1, 1)>>, <<D(2, 1)>>, <<D(1, 9)>>, <<>>}

\* A row as step 5 receives it: the columns of the file, timestamp_utc, case_id.
StageRow(field, newv) ==
    WithCols(RawRow(CaseC2, UtcTen, field, newv, "Update"),
             [timestamp_utc |-> UtcTen, case_id |-> CaseC2])

\* ------------------------------------------------------------------- state

VARIABLES
    pc,          \* where main() is: "load", "resolve", "step0" .. "step12", "save", "done", "fatal"
    columns,     \* df.columns: the names of the six columns of the file
    column_map,  \* what _resolve_columns returned
    raw,         \* the rows of dataset.csv
    df,          \* the working table
    abandoned,   \* abandoned_cases/single_event_cases.csv
    level_idx,   \* position of export_to_xes' loop over the buckets
    files,       \* level -> the trace file log_<level>.xes
    saved,       \* cleaned_dataset.csv
    error,       \* the exception that ended the run
    report,      \* the counts the steps print
    done,        \* the stages that have run so far
    before,      \* the table the last stage was handed
    missing      \* the roles the KeyError of _resolve_columns lists

vars ==
    <<pc, columns, column_map, raw, df, abandoned, level_idx, files, saved, error,
      report, done, before, missing>>

\* The file that has not been written (of the two CSV outputs).
NotWritten == [written |-> FALSE, rows |-> <<>>]

NoReport ==
    [timestamps_dropped |-> 0, cases_removed |-> 0, rows_removed |-> 0,
     kill_dropped |-> 0, creates_aggregated |-> 0, duplicates_removed |-> 0]

\* The state every run starts from, but for the input.
Blank ==
    /\ abandoned = NotWritten
    /\ level_idx = 1
    /\ files = [l \in {ExportLevels[i] : i \in DOMAIN ExportLevels} |-> NoFile]
    /\ saved = NotWritten
    /\ error = ""
    /\ report = NoReport
    /\ done = {}
    /\ before = <<>>
    /\ missing = <<>>

\* main() is about to load dataset.csv.
Init ==
    /\ pc = "load"
    /\ columns \in Headers
    /\ column_map = [r \in {} |-> ""]
    /\ raw \in Tables(RawRows)
    /\ df = <<>>
    /\ Blank

\* A single stage is about to be handed a table of events.
InitAt(stage) ==
    /\ pc = stage
    /\ columns = Header("Field")
    /\ column_map = _resolve_columns(columns)
    /\ raw \in Tables(Events)
    /\ df = raw
    /\ Blank

\* The key under which the rows hold the column named name.
KeyOf(name) == RoleKeys[CHOOSE i \in DOMAIN columns : columns[i] = name]

HasColumn(name) == \E i \in DOMAIN columns : columns[i] = name

\* df with every row r given the columns Extra(r).
AddColumns(table, Extra(_)) == [i \in DOMAIN table |-> WithCols(table[i], Extra(table[i]))]

\* The run ends with an exception.
Raise(exception) ==
    /\ pc' = "fatal"
    /\ error' = exception
    /\ missing' = missing

\* The run goes on at position next.
Goto(next) ==
    /\ pc' = next
    /\ error' = error
    /\ missing' = missing

\* A stage of main() ran on df.
Ran(stage) ==
    /\ done' = done \cup {stage}
    /\ before' = df

\* ----------------------------------------------------------------- actions

\* load_dataset(): the column names normalized, every value stripped.
LoadDataset ==
    /\ pc = "load"
    /\ columns' = [i \in DOMAIN columns |-> _normalize_column_name(columns[i])]
    /\ df' = [i \in DOMAIN raw |->
                [raw[i] EXCEPT !.timestamp = Strip(@), !.case = Strip(@),
                               !.prev = Strip(@), !.newv = Strip(@)]]
    /\ Goto("resolve")
    /\ Ran("load")
    /\ UNCHANGED <<column_map, raw, abandoned, level_idx, files, saved, report>>

\* column_map = _resolve_columns(df): KeyError when a role is missing.
ResolveColumns ==
    /\ pc = "resolve"
    /\ column_map' = _resolve_columns(columns)
    /\ IF MissingKeys(column_map') # <<>>
       THEN /\ pc' = "fatal"
            /\ error' = "KeyError"
            /\ missing' = MissingKeys(column_map')
       ELSE Goto("step0")
    /\ Ran("resolve")
    /\ UNCHANGED <<columns, raw, df, abandoned, level_idx, files, saved, report>>

\* step0_validate_audit_log_bundle: the one audit_log entry must declare its
\* case_id_column and its timestamp_column.
Step0 ==
    /\ pc = "step0"
    /\ IF column_map["case_id"] = "" \/ column_map["timestamp"] = ""
       THEN Raise("PipelineB1Error")
       ELSE Goto("step1")
    /\ Ran("step0")
    /\ UNCHANGED <<columns, column_map, raw, df, abandoned, level_idx, files, saved, report>>

\* step1_parse_timestamps: timestamp_utc added, the rows without one dropped;
\* an exception of the parser ends the run.
Step1 ==
    /\ pc = "step1"
    /\ LET key == KeyOf(column_map["timestamp"])
           Parsed(row) == [parsed |-> parse_timestamp_to_utc_iso_z(row[key])]
           Outcome(all) ==
               IF \E i \in DOMAIN all : all[i].parsed.raised # ""
               THEN [raised |-> "OverflowError", df |-> df]
               ELSE [raised |-> "",
                     df |-> RowsAt([i \in DOMAIN df |->
                                      WithCols(df[i], [timestamp_utc |-> all[i].parsed.ts])],
                                   {i \in DOMAIN all : all[i].parsed.ts # None})]
       IN  \E out \in {With(AddColumns(df, Parsed), Outcome)} :
               /\ df' = out.df
               /\ IF out.raised # ""
                  THEN /\ Raise(out.raised)
                       /\ report' = report
                  ELSE /\ Goto("step2")
                       /\ report' = [report EXCEPT
                                        !.timestamps_dropped = Len(df) - Len(out.df)]
    /\ Ran("step1")
    /\ UNCHANGED <<columns, column_map, raw, abandoned, level_idx, files, saved>>

\* _normalize_value(str(x), trim_whitespace=True, collapse_whitespace=True)
_normalize_value(x) == CollapseSpaces(Strip(x))

\* step2_normalize_case_ids: case_id added.
Step2 ==
    /\ pc = "step2"
    /\ LET key == KeyOf(column_map["case_id"])
           Normalized(row) == [case_id |-> _normalize_value(row[key])]
       IN  df' = AddColumns(df, Normalized)
    /\ Goto("step3")
    /\ Ran("step2")
    /\ UNCHANGED <<columns, column_map, raw, abandoned, level_idx, files, saved, report>>

\* step3_remove_single_event_cases: the cases with fewer than 2 rows go to the
\* abandoned-cases report, which is written when there is such a row.
Step3 ==
    /\ pc = "step3"
    /\ LET res == remove_single_event_cases(df, "case_id")
       IN  /\ df' = res.filtered_df
           /\ abandoned' = IF Len(res.single_event_df) > 0
                           THEN [written |-> TRUE, rows |-> res.single_event_df]
                           ELSE abandoned
           /\ report' = [report EXCEPT !.cases_removed = res.num_cases,
                                       !.rows_removed = res.num_rows]
    /\ Goto("step4")
    /\ Ran("step3")
    /\ UNCHANGED <<columns, column_map, raw, level_idx, files, saved>>

\* step4_filter_kill_fields
Step4 ==
    /\ pc = "step4"
    /\ LET res == filter_kill_fields(df, KeyOf(column_map["field"]))
       IN  /\ df' = res.df_filtered
           /\ report' = [report EXCEPT !.kill_dropped = res.dropped_count]
    /\ Goto("step5")
    /\ Ran("step4")
    /\ UNCHANGED <<columns, column_map, raw, abandoned, level_idx, files, saved>>

\* step5_classify_buckets: bucket and level added.
Step5 ==
    /\ pc = "step5"
    /\ LET key == KeyOf(column_map["field"])
           Classified(row) == [bucket |-> classify_field(row[key])[1],
                               level |-> classify_field(row[key])[2]]
       IN  df' = AddColumns(df, Classified)
    /\ Goto("step6")
    /\ Ran("step5")
    /\ UNCHANGED <<columns, column_map, raw, abandoned, level_idx, files, saved, report>>

\* step6_translate_codes: translated_value added.
Step6 ==
    /\ pc = "step6"
    /\ LET field == KeyOf(column_map["field"])
           value == KeyOf(column_map["new_value"])
           Translated(row) == [translated_value |-> translate_value(row[field], row[value])]
       IN  df' = AddColumns(df, Translated)
    /\ Goto("step7")
    /\ Ran("step6")
    /\ UNCHANGED <<columns, column_map, raw, abandoned, level_idx, files, saved, report>>

\* step7_extract_sequences: sequence added.
Step7 ==
    /\ pc = "step7"
    /\ LET field == KeyOf(column_map["field"])
           value == KeyOf(column_map["new_value"])
           Sequenced(row) == [sequence |-> extract_sequence(row[field], row[value])]
       IN  df' = AddColumns(df, Sequenced)
    /\ Goto("step8")
    /\ Ran("step7")
    /\ UNCHANGED <<columns, column_map, raw, abandoned, level_idx, files, saved, report>>

\* step8_derive_activity_names: derive_activity_name reads row['Field'], which
\* raises KeyError on the first row when the table has no column of that name.
Step8 ==
    /\ pc = "step8"
    /\ IF df # <<>> /\ ~HasColumn("Field")
       THEN /\ Raise("KeyError")
            /\ df' = df
       ELSE /\ LET Named(row) ==
                       [activity_name |->
                           derive_activity_name(row[KeyOf("Field")], row.bucket,
                                                row.translated_value)]
               IN  df' = AddColumns(df, Named)
            /\ Goto("step9")
    /\ Ran("step8")
    /\ UNCHANGED <<columns, column_map, raw, abandoned, level_idx, files, saved, report>>

\* step9_aggregate_creates
Step9 ==
    /\ pc = "step9"
    /\ \E pick \in RepresentativeChoices(df, KeyOf(column_map["operation"])) :
           /\ df' = aggregate_create_operations(df, KeyOf(column_map["operation"]), pick)
           /\ report' = [report EXCEPT !.creates_aggregated = Len(df) - Len(df')]
    /\ Goto("step10")
    /\ Ran("step9")
    /\ UNCHANGED <<columns, column_map, raw, abandoned, level_idx, files, saved>>

\* step10_sort_events
Step10 ==
    /\ pc = "step10"
    /\ df' = sort_events(df, HasColumn("Field"),
                         IF HasColumn("Field") THEN KeyOf("Field") ELSE "field")
    /\ Goto("step11")
    /\ Ran("step10")
    /\ UNCHANGED <<columns, column_map, raw, abandoned, level_idx, files, saved, report>>

\* The key columns main() passes to deduplicate_events.
DedupKeyFields == <<"case_id", "activity_name", "timestamp_utc">>

\* step11_deduplicate_events
Step11 ==
    /\ pc = "step11"
    /\ LET res == deduplicate_events(df, DedupKeyFields)
       IN  /\ df' = res.df_deduped
           /\ report' = [report EXCEPT !.duplicates_removed = res.duplicates_removed]
    /\ Goto("step12")
    /\ Ran("step11")
    /\ UNCHANGED <<columns, column_map, raw, abandoned, level_idx, files, saved>>

\* ExportLevel without the selection of the rows of the level: every turn of
\* the loop exports the whole table.
ExportWholeTable ==
    /\ pc = "step12"
    /\ level_idx <= Len(ExportLevels)
    /\ LET level_code == ExportLevels[level_idx]
           res == _export_single_xes(df)
       IN  IF Len(df) = 0
           THEN /\ files' = files
                /\ Goto("step12")
           ELSE IF res.raised
           THEN /\ files' = files
                /\ Raise("XESExportError")
           ELSE /\ files' = [files EXCEPT ![level_code] = [written |-> TRUE, log |-> res.log]]
                /\ Goto("step12")
    /\ level_idx' = level_idx + 1
    /\ Ran("export")
    /\ UNCHANGED <<columns, column_map, raw, df, abandoned, saved, report>>

\* ExportLevel without the skip of a level that has no rows: the level's file
\* is written, with no trace in it.
ExportLevelWithoutSkip ==
    /\ pc = "step12"
    /\ level_idx <= Len(ExportLevels)
    /\ LET level_code == ExportLevels[level_idx]
           df_level == RowsAt(df, {i \in DOMAIN df : df[i].level = level_code})
           res == _export_single_xes(df_level)
       IN  IF res.raised
           THEN /\ files' = files
                /\ Raise("XESExportError")
           ELSE /\ files' = [files EXCEPT ![level_code] = [written |-> TRUE, log |-> res.log]]
                /\ Goto("step12")
    /\ level_idx' = level_idx + 1
    /\ Ran("export")
    /\ UNCHANGED <<columns, column_map, raw, df, abandoned, saved, report>>

\* One turn of export_to_xes' loop over the buckets: the rows of the level are
\* selected; a level without rows is skipped; else _export_single_xes validates
\* them and either raises XESExportError or writes the level's file.
ExportLevel ==
    /\ pc = "step12"
    /\ level_idx <= Len(ExportLevels)
    /\ LET level_code == ExportLevels[level_idx]
           df_level == RowsAt(df, {i \in DOMAIN df : df[i].level = level_code})
           res == _export_single_xes(df_level)
       IN  IF Len(df_level) = 0
           THEN /\ files' = files
                /\ Goto("step12")
           ELSE IF res.raised
           THEN /\ files' = files
                /\ Raise("XESExportError")
           ELSE /\ files' = [files EXCEPT ![level_code] = [written |-> TRUE, log |-> res.log]]
                /\ Goto("step12")
    /\ level_idx' = level_idx + 1
    /\ Ran("export")
    /\ UNCHANGED <<columns, column_map, raw, df, abandoned, saved, report>>

\* export_to_xes returns: the loop is over.
ExportReturn ==
    /\ pc = "step12"
    /\ level_idx > Len(ExportLevels)
    /\ Goto("save")
    /\ UNCHANGED <<columns, column_map, raw, df, abandoned, level_idx, files, saved,
                   report, done, before>>

\* main() writes cleaned_dataset.csv and ends.
SaveCsv ==
    /\ pc = "save"
    /\ saved' = [written |-> TRUE, rows |-> df]
    /\ Goto("done")
    /\ Ran("save")
    /\ UNCHANGED <<columns, column_map, raw, df, abandoned, level_idx, files, report>>

\* deduplicate_events called once more, on the table it returned.
DeduplicateAgain ==
    /\ pc = "step12"
    /\ "step11" \in done
    /\ LET res == deduplicate_events(df, DedupKeyFields)
       IN  /\ df' = res.df_deduped
           /\ report' = [report EXCEPT !.duplicates_removed = res.duplicates_removed]
    /\ Goto("twice")
    /\ Ran("again")
    /\ UNCHANGED <<columns, column_map, raw, abandoned, level_idx, files, saved>>

\* ---------------------------------------------------------- specifications

\* main(), from load_dataset to cleaned_dataset.csv.
Next ==
    \/ LoadDataset \/ ResolveColumns \/ Step0
    \/ Step1 \/ Step2 \/ Step3 \/ Step4 \/ Step5 \/ Step6 \/ Step7 \/ Step8
    \/ Step9 \/ Step10 \/ Step11
    \/ ExportLevel \/ ExportReturn \/ SaveCsv

Spec == Init /\ [][Next]_vars

\* aggregate_create_operations on any table of events, then the sorter and the
\* deduplicator.
InitAggregate == InitAt("step9")

NextAggregate == Step9 \/ Step10 \/ Step11

SpecAggregate == InitAggregate /\ [][NextAggregate]_vars

\* sort_events on any table of events.
InitSort ==
    /\ pc = "step10"
    /\ columns = Header("Field")
    /\ column_map = _resolve_columns(columns)
    /\ raw \in Tables(SortEvents)
    /\ df = raw
    /\ Blank

NextSort == Step10

SpecSort == InitSort /\ [][NextSort]_vars

\* deduplicate_events on any table of events, and again on its result.
InitDedup == InitAt("step11")

NextDedup == Step11 \/ DeduplicateAgain

SpecDedup == InitDedup /\ [][NextDedup]_vars

\* The stages that work row by row (classification, translation, sequence,
\* activity name) on any row.
InitRow ==
    /\ pc = "step5"
    /\ columns = Header("Field")
    /\ column_map = _resolve_columns(columns)
    /\ raw \in {<<StageRow(field, newv)>> : field \in FieldNames, newv \in NewValues}
    /\ df = raw
    /\ Blank

NextRow == Step5 \/ Step6 \/ Step7 \/ Step8

SpecRow == InitRow /\ [][NextRow]_vars

\* main() on a file of two rows of one case, with any two values in the
\* timestamp column.
InitTimestamps ==
    /\ pc = "load"
    /\ columns = Header("Field")
    /\ column_map = [r \in {} |-> ""]
    /\ raw \in {<<RawRow(CaseC2, first, "stepname", <<D(2, 14), W("-"), W("Qualify")>>, "Update"),
                  RawRow(CaseC2, second, "stepname", <<D(2, 14), W("-"), W("Qualify")>>, "Update")>> :
                    first \in RawTimestamps, second \in RawTimestamps}
    /\ df = <<>>
    /\ Blank

SpecTimestamps == InitTimestamps /\ [][Next]_vars

\* main() on a file of rows of noise fields.
InitNoise ==
    /\ pc = "load"
    /\ columns = Header("Field")
    /\ column_map = [r \in {} |-> ""]
    /\ raw \in Tables(NoiseRows)
    /\ df = <<>>
    /\ Blank

SpecNoise == InitNoise /\ [][Next]_vars

\* main() from aggregate_create_operations on, on any table of Create rows of
\* every level.
InitCreate ==
    /\ pc = "step9"
    /\ columns = Header("Field")
    /\ column_map = _resolve_columns(columns)
    /\ raw \in Tables(CreateEvents)
    /\ df = raw
    /\ Blank

NextCreate == Step9 \/ Step10 \/ Step11 \/ ExportLevel \/ ExportReturn \/ SaveCsv

SpecCreate == InitCreate /\ [][NextCreate]_vars

\* export_to_xes on any table of events.
InitExport ==
    /\ pc = "step12"
    /\ columns = Header("Field")
    /\ column_map = _resolve_columns(columns)
    /\ raw \in Tables(ExportEvents)
    /\ df = raw
    /\ Blank

NextExport == ExportLevel \/ ExportReturn

SpecExport == InitExport /\ [][NextExport]_vars

\* ------------------------------------------------------------ claims C1-C5

\* The events of case c in a table.
EventsOfCase(table, c) == {i \in DOMAIN table : table[i].case_id = c}

\* The timestamp_utc main() gives a row of the input file.
ParsedTimestamp(row) == parse_timestamp_to_utc_iso_z(row.timestamp).ts

\* The case_id main() gives a row of the input file.
CaseIdOf(row) == _normalize_value(Strip(row.case))

\* The rows of the input file that survive the timestamp drop and the noise
\* filter.
SurvivingRows ==
    {i \in DOMAIN raw : ParsedTimestamp(raw[i]) # None /\ raw[i].field \notin KILL_FIELDS}

\* Whether a trace file holds a trace of case c.
InSomeTraceFile(c) ==
    \E l \in DOMAIN files : \E k \in DOMAIN files[l].log : files[l].log[k].name = c

\* C1: once the pipeline has run to its end, every case_id that occurs in the
\* final canonical output has at least 2 events there.
C1_FinalCasesHaveTwoEvents ==
    saved.written =>
        \A c \in ColumnValues(saved.rows, "case_id") :
            Cardinality(EventsOfCase(saved.rows, c)) >= 2

\* C2: a case with exactly one row surviving the timestamp drop and the noise
\* filter is absent from the canonical output and from every trace file, and
\* its rows are in the abandoned-cases report.
C2_SingleSurvivorAbandoned ==
    pc = "done" =>
        \A c \in {CaseIdOf(raw[i]) : i \in DOMAIN raw} :
            Cardinality({i \in SurvivingRows : CaseIdOf(raw[i]) = c}) = 1 =>
                /\ EventsOfCase(saved.rows, c) = {}
                /\ ~InSomeTraceFile(c)
                /\ abandoned.written
                /\ EventsOfCase(abandoned.rows, c) # {}

\* The orderings of the positions 1..n.
Orderings(n) == {p \in [1..n -> 1..n] : \A i, j \in 1..n : p[i] = p[j] => i = j}

\* The table with its rows in the ordering p.
Reordered(table, p) == [i \in DOMAIN table |-> table[p[i]]]

\* What step 10 returns for a table.
Sorted(table) ==
    sort_events(table, HasColumn("Field"),
                IF HasColumn("Field") THEN KeyOf("Field") ELSE "field")

\* The five keys sort_events compares before the row index, read off the row.
FiveKeys(row) ==
    <<row.case_id, row.timestamp_utc,
      IF row.bucket = "L1_STAGE" /\ Lower(row.field) = "statuscode" THEN 0 ELSE 1,
      IF row.sequence = NoSeq THEN 1 ELSE 0,
      IF row.sequence = NoSeq THEN 0 ELSE row.sequence>>

\* No two different rows of the table tie on the five keys.
NoTiesBetweenDifferentRows(table) ==
    \A i, j \in DOMAIN table : table[i] # table[j] => FiveKeys(table[i]) # FiveKeys(table[j])

\* C3 as stated: sort_events returns the same sequence for every ordering of
\* the rows it was handed, rows that tie on the five keys included.
C3_SortPermutationInvariant ==
    "step10" \in done =>
        \A p \in Orderings(Len(before)) : Sorted(Reordered(before, p)) = df

\* C3, amended: sort_events returns the same sequence for every ordering of
\* the rows it was handed, when no two different rows tie on case_id,
\* timestamp_utc, status-code priority, has-sequence flag and sequence value.
C3_SortPermutationInvariantWithoutTies ==
    ("step10" \in done /\ NoTiesBetweenDifferentRows(before)) =>
        \A p \in Orderings(Len(before)) : Sorted(Reordered(before, p)) = df

\* sort_events was handed three rows free of ties, and moved some.
C3_Witness ==
    /\ "step10" \in done
    /\ Len(before) = 3
    /\ NoTiesBetweenDifferentRows(before)
    /\ df # before
    /\ \E i, j \in DOMAIN before :
           /\ before[i].case_id = before[j].case_id
           /\ before[i].timestamp_utc = before[j].timestamp_utc
           /\ before[i] # before[j]

\* Whether some event handed to the exporter fails the strict-UTC validation.
SomeTimestampInvalid ==
    \E i \in DOMAIN df : _validate_timestamp_utc(df[i].timestamp_utc) # "ok"

\* C4: when an event handed to the exporter fails the validation, export_to_xes
\* ends with an export error and none of the three trace files is written.
C4_InvalidTimestampLeavesNoFile ==
    (SomeTimestampInvalid /\ pc \in {"save", "fatal"}) =>
        /\ error = "XESExportError"
        /\ \A l \in DOMAIN files : ~files[l].written

\* The "Case Created" events of case c in the final output.
CaseCreatedEvents(c) ==
    {j \in EventsOfCase(saved.rows, c) :
        saved.rows[j].activity_name = <<W("Case Created")>>}

\* Whether the one "Case Created" event of case c carries the least of the
\* timestamps of the rows at the positions in creates.
CreatedOnceAtLeast(c, creates) ==
    /\ Cardinality(CaseCreatedEvents(c)) = 1
    /\ \A j \in CaseCreatedEvents(c) :
           /\ \E i \in creates : ParsedTimestamp(raw[i]) = saved.rows[j].timestamp_utc
           /\ \A i \in creates :
                  ParsedTimestamp(raw[i]) # None =>
                      ~StrLess(ParsedTimestamp(raw[i]), saved.rows[j].timestamp_utc)

\* The Create rows of case c in the input file.
RawCreates(c) == {i \in DOMAIN raw : raw[i].op = "Create" /\ CaseIdOf(raw[i]) = c}

\* The Create rows of case c that reach the aggregator: those with a timestamp
\* that parses and a field outside the noise list, in a case with at least two
\* rows whose timestamp parses.
AggregatedCreates(c) ==
    {i \in RawCreates(c) \cap SurvivingRows :
        Cardinality({k \in DOMAIN raw :
            CaseIdOf(raw[k]) = c /\ ParsedTimestamp(raw[k]) # None}) >= 2}

\* C5 as stated: every case with a raw Create row has exactly one "Case
\* Created" event in the final output, at the least timestamp of its Create rows.
C5_CaseCreatedForEveryRawCreate ==
    pc = "done" =>
        \A c \in {CaseIdOf(raw[i]) : i \in DOMAIN raw} :
            RawCreates(c) # {} => CreatedOnceAtLeast(c, RawCreates(c))

\* C5, amended: every case with a Create row that reaches the aggregator (its
\* timestamp parses, its field is outside the noise list, its case has at least
\* two rows whose timestamp parses) has exactly one "Case Created" event in the
\* final output, at the least timestamp_utc of those Create rows.
C5_CaseCreatedForEveryAggregatedCreate ==
    saved.written =>
        \A c \in {CaseIdOf(raw[i]) : i \in DOMAIN raw} :
            AggregatedCreates(c) # {} => CreatedOnceAtLeast(c, AggregatedCreates(c))

\* The final output holds the "Case Created" event of a case whose two Create
\* rows carry different timestamps.
C5_Witness ==
    /\ saved.written
    /\ \E c \in CaseIds :
           /\ \E i, k \in AggregatedCreates(c) :
                  ParsedTimestamp(raw[i]) # ParsedTimestamp(raw[k])
           /\ CaseCreatedEvents(c) # {}

\* ----------------------------------------------------------- claims C6-C10

\* C6: once aggregate_create_operations has run, and still after the sorter
\* and the deduplicator, a case has at most one row whose operation is
\* "Create" and at most one "Case Created" event.
C6_AtMostOneCreatePerCase ==
    "step9" \in done =>
        \A c \in ColumnValues(df, "case_id") :
            /\ Cardinality({i \in EventsOfCase(df, c) : df[i].op = "Create"}) <= 1
            /\ Cardinality({i \in EventsOfCase(df, c) :
                               df[i].activity_name = <<W("Case Created")>>}) <= 1

\* The aggregator was handed several Create rows of one case, and the sorter
\* and the deduplicator have run on its result.
C6_Witness ==
    /\ "step11" \in done
    /\ \E c \in CaseIds :
           /\ Cardinality(CreateGroup(raw, "op", c)) >= 2
           /\ \E i \in EventsOfCase(df, c) : df[i].activity_name = <<W("Case Created")>>
           /\ \E i \in EventsOfCase(df, c) : df[i].op # "Create"

\* C7: no two events of the output of deduplicate_events carry the same
\* (case_id, activity_name, timestamp_utc).
C7_NoDuplicateTriples ==
    "step11" \in done =>
        \A i, j \in DOMAIN df :
            (/\ df[i].case_id = df[j].case_id
             /\ df[i].activity_name = df[j].activity_name
             /\ df[i].timestamp_utc = df[j].timestamp_utc) => i = j

\* deduplicate_events removed a duplicate that did not follow its original.
C7_Witness ==
    /\ pc = "step12"
    /\ "step11" \in done
    /\ report.duplicates_removed > 0
    /\ Len(before) = 3
    /\ before[1].activity_name = before[3].activity_name
    /\ before[1].case_id = before[3].case_id
    /\ before[1].timestamp_utc = before[3].timestamp_utc
    /\ before[1].activity_name # before[2].activity_name

\* C8: deduplicate_events applied to its own result returns that result and
\* reports 0 duplicates removed.
C8_DedupIdempotent ==
    pc = "twice" => (df = before /\ report.duplicates_removed = 0)

\* deduplicate_events ran on the result of a call that removed two duplicates.
C8_Witness ==
    /\ pc = "twice"
    /\ Len(raw) = 3
    /\ Len(before) = 1

\* Whether a timestamp_utc has no surrounding whitespace, the form
\* YYYY-MM-DDTHH:MM:SS[.fraction]Z, and names an instant that exists.
IsStrictUtcInstant(ts) ==
    /\ ts = Strip(ts)
    /\ MatchesTimestampUtcRe(ts)
    /\ ValidDateTime(ts[1].v, ts[3].v, ts[5].v, ts[7].v, ts[9].v, ts[11].v)

\* C9: every event written to a trace file carries a timestamp_utc without
\* surrounding whitespace, of the form YYYY-MM-DDTHH:MM:SS[.fraction]Z, that
\* names an instant.
C9_WrittenTimestampsStrictUtc ==
    \A l \in DOMAIN files :
        \A k \in DOMAIN files[l].log :
            \A e \in DOMAIN files[l].log[k].events :
                IsStrictUtcInstant(files[l].log[k].events[e].timestamp)

\* A trace file was written, with a trace of several events, from a table
\* that also holds a timestamp the validation rejects.
C9_Witness ==
    /\ SomeTimestampInvalid
    /\ \E l \in DOMAIN files :
           /\ files[l].written
           /\ \E k \in DOMAIN files[l].log : Len(files[l].log[k].events) >= 2

\* C10: when the column names resolve all six roles, the run meets no fatal
\* error.
C10_ResolvedColumnsRunToTheEnd ==
    ("resolve" \in done /\ MissingRoles(column_map) = {}) => pc # "fatal"

\* ---------------------------------------------------------- claims C11-C20

\* The stages of main() that process rows.
RowStages ==
    {"step1", "step2", "step3", "step4", "step5", "step6", "step7", "step8", "step9",
     "step10", "step11", "export", "save"}

\* The roles whose column the header does not let _resolve_columns find: the
\* i-th column of the file carries the data of the i-th role.
UnmatchedRoles == {Roles[i] : i \in {j \in DOMAIN Roles : column_map[Roles[j]] # columns[j]}}

\* C11: when one of the six roles cannot be matched, schema resolution fails
\* with an error that names every unresolved role, before any stage has
\* processed a row.
C11_EveryUnresolvedRoleNamed ==
    ("resolve" \in done /\ UnmatchedRoles # {}) =>
        /\ pc = "fatal"
        /\ error = "KeyError"
        /\ {missing[i] : i \in DOMAIN missing} = UnmatchedRoles
        /\ done \cap RowStages = {}
        /\ ~saved.written /\ ~abandoned.written
        /\ \A l \in DOMAIN files : ~files[l].written

\* Schema resolution failed on a file with rows and several unmatched roles.
C11_Witness ==
    /\ pc = "fatal"
    /\ Len(missing) >= 2
    /\ Len(raw) >= 1

\* The rows of the input file whose timestamp the parser classifies as reason.
RowsDroppedFor(reason) ==
    {i \in DOMAIN raw : parse_timestamp_to_utc_iso_z(raw[i].timestamp).reason = reason}

\* The numbers step1_parse_timestamps reports.
ReportedByStep1 == {report.timestamps_dropped}

\* The data of the six columns of the file in a row of the working table.
FileColumns(row) == [k \in {RoleKeys[i] : i \in DOMAIN RoleKeys} |-> row[k]]

\* C12: the timestamp step drops exactly the rows whose timestamp is MISSING
\* or INVALID, the run goes on with the other rows, and the number of rows
\* dropped for each of the two reasons is reported.
C12_DropsReportedByReason ==
    "step1" \in done =>
        /\ pc = "fatal" => "step2" \in done
        /\ pc = "step2" =>
               [i \in DOMAIN df |-> FileColumns(df[i])]
                   = RowsAt(raw, DOMAIN raw \ (RowsDroppedFor(DROP_TIMESTAMP_MISSING)
                                                 \cup RowsDroppedFor(DROP_TIMESTAMP_INVALID)))
        /\ Cardinality(RowsDroppedFor(DROP_TIMESTAMP_MISSING)) \in ReportedByStep1
        /\ Cardinality(RowsDroppedFor(DROP_TIMESTAMP_INVALID)) \in ReportedByStep1

\* C13: no row whose field is exactly "pricelevelid" is in the working table
\* once the noise filter has run, nor in the canonical output.
C13_NoPricelevelidInOutput ==
    /\ "step4" \in done => \A i \in DOMAIN df : df[i].field # "pricelevelid"
    /\ \A i \in DOMAIN saved.rows : saved.rows[i].field # "pricelevelid"

\* The canonical output holds events of a case that had a pricelevelid row
\* with a timestamp that parses.
C13_Witness ==
    /\ saved.written
    /\ \E i \in DOMAIN raw :
           /\ raw[i].field = "pricelevelid"
           /\ ParsedTimestamp(raw[i]) # None
           /\ EventsOfCase(saved.rows, CaseIdOf(raw[i])) # {}

\* How many rows of the table have level l and are written as event e of case c.
RowsWrittenAs(table, l, c, e) ==
    Cardinality({i \in DOMAIN table :
        table[i].level = l /\ table[i].case_id = c /\ XesEvent(table[i]) = e})

\* How many times the trace file of level l holds event e in a trace named c.
TimesInFile(l, c, e) ==
    Cardinality({pos \in (DOMAIN files[l].log) \X (1..MaxRows) :
        /\ files[l].log[pos[1]].name = c
        /\ pos[2] \in DOMAIN files[l].log[pos[1]].events
        /\ files[l].log[pos[1]].events[pos[2]] = e})

\* C14: after a successful export every event of level L1, L2 or L3 is in the
\* trace file of its level once and in no other file, and no event of level
\* KILL or UNKNOWN is in a trace file.
C14_EventsInTheirTierFileOnly ==
    pc = "save" =>
        \A i \in DOMAIN df : \A l \in DOMAIN files :
            TimesInFile(l, df[i].case_id, XesEvent(df[i]))
                = RowsWrittenAs(df, l, df[i].case_id, XesEvent(df[i]))

\* A successful export of events of two tiers and of an event of no tier.
C14_Witness ==
    /\ pc = "save"
    /\ \E i, j, k \in DOMAIN df :
           /\ df[i].level = "L1"
           /\ df[j].level = "L2"
           /\ df[k].level \in {"KILL", "UNKNOWN"}

\* The events written for the rows of level l and case c, in the order of df.
EventsOfTier(l, c) ==
    LET rows == SelectSeq(df, LAMBDA row : row.level = l /\ row.case_id = c)
    IN  [k \in DOMAIN rows |->
            [name |-> rows[k].activity_name, timestamp |-> rows[k].timestamp_utc]]

\* C15: in a trace file the traces are in ascending order of case_id, there is
\* one trace for every case with an event of the tier, named with the case_id,
\* and its events are the case's events of the tier in the order the exporter
\* received them.
C15_TracesSortedEventsInOrder ==
    \A l \in DOMAIN files :
        files[l].written =>
            LET log == files[l].log
            IN  /\ \A k \in 1..(Len(log) - 1) : StrLess(log[k].name, log[k + 1].name)
                /\ {log[k].name : k \in DOMAIN log}
                       = {df[i].case_id : i \in {j \in DOMAIN df : df[j].level = l}}
                /\ \A k \in DOMAIN log : log[k].events = EventsOfTier(l, log[k].name)

\* A trace file holds the traces of "C10" and "C2", in this order, from a
\* table where a row of "C2" comes first, and a trace of two different events.
C15_Witness ==
    \E l \in DOMAIN files :
        /\ files[l].written
        /\ Len(files[l].log) = 2
        /\ df[1].case_id = CaseC2
        /\ df[1].level = l
        /\ \E k \in DOMAIN files[l].log :
               /\ Len(files[l].log[k].events) = 2
               /\ files[l].log[k].events[1] # files[l].log[k].events[2]

\* The rows of level l in the table handed to the exporter.
RowsOfTier(l) == {i \in DOMAIN df : df[i].level = l}

\* How many events the trace file of level l holds.
EventsInFile(l) ==
    Cardinality({pos \in (DOMAIN files[l].log) \X (1..MaxRows) :
        pos[2] \in DOMAIN files[l].log[pos[1]].events})

TierPairs ==
    {<<"L1_STAGE", "L1">>, <<"L2_MILESTONE", "L2">>, <<"L3_ADMIN", "L3">>,
     <<"KILL_NOISE", "KILL">>, <<"UNKNOWN", "UNKNOWN">>}

\* The tables of the taxonomy that hold a name.
TablesHolding(name) ==
    {b \in {"L1_STAGE", "L2_MILESTONE", "L3_ADMIN", "KILL_NOISE"} : name \in BUCKET_FIELDS(b)}

\* C17: every classified row carries one of the five pairs: the pair of the
\* table that holds its lower-cased field name, (UNKNOWN, UNKNOWN) when no
\* table holds it.
C17_ClassifiedByLowerCasedName ==
    "step5" \in done =>
        \A i \in DOMAIN df :
            LET pair == <<df[i].bucket, df[i].level>>
                tables == TablesHolding(Lower(df[i].field))
            IN  /\ pair \in TierPairs
                /\ \A b \in tables : pair[1] = b
                /\ tables = {} => pair = <<"UNKNOWN", "UNKNOWN">>

\* A field name in mixed case was classified by its table.
C17_Witness ==
    /\ "step5" \in done
    /\ df[1].field = "ConfirmInterest"
    /\ df[1].bucket = "L2_MILESTONE"
    /\ df[1].level = "L2"

\* The labels of the codes: (field, code, label).
CodeLabels ==
    {<<"statecode", <<D(1, 0)>>, <<W("Open")>>>>,
     <<"statecode", <<D(1, 1)>>, <<W("Won")>>>>,
     <<"statecode", <<D(1, 2)>>, <<W("Lost")>>>>,
     <<"statuscode", <<D(1, 1)>>, <<W("In Progress")>>>>,
     <<"statuscode", <<D(1, 2)>>, <<W("On Hold")>>>>,
     <<"statuscode", <<D(1, 3)>>, <<W("Won")>>>>,
     <<"statuscode", <<D(1, 4)>>, <<W("Canceled")>>>>,
     <<"statuscode", <<D(1, 5)>>, <<W("Out-Sold")>>>>}

\* C18: translated_value is the label when the lower-cased field is statecode
\* or statuscode and the value is a code of its table (statecode "1" gives
\* "Won"), and the value unchanged in every other case.
C18_TranslatedOrUnchanged ==
    "step6" \in done =>
        \A i \in DOMAIN df :
            LET labels == {l \in CodeLabels :
                              l[1] = Lower(df[i].field) /\ l[2] = df[i].newv}
            IN  /\ \A l \in labels : df[i].translated_value = l[3]
                /\ labels = {} => df[i].translated_value = df[i].newv
                /\ (df[i].field = "statecode" /\ df[i].newv = <<D(1, 1)>>) =>
                       df[i].translated_value = <<W("Won")>>

\* A code of a field in mixed case was translated, and "01" was not.
C18_Witness ==
    /\ "step6" \in done
    /\ df[1].field \in {"StateCode", "StatusCode"}
    /\ df[1].newv = <<D(1, 1)>>
    /\ df[1].translated_value # df[1].newv

\* Whether a value starts with a run of digits followed by a hyphen.
StartsWithDigitsAndHyphen(value) ==
    /\ Len(value) >= 2
    /\ value[1].w > 0
    /\ value[2] = W("-")

\* C19: the sequence is the leading digit run, as an integer, when the
\* lower-cased field is stepname and the value starts with digits followed by
\* a hyphen; in every other case it is absent, which is not 0.
C19_SequenceFromStepnamePrefix ==
    "step7" \in done =>
        \A i \in DOMAIN df :
            IF Lower(df[i].field) = "stepname" /\ StartsWithDigitsAndHyphen(df[i].newv)
            THEN df[i].sequence = df[i].newv[1].v /\ df[i].sequence >= 0
            ELSE df[i].sequence = NoSeq /\ df[i].sequence # 0

\* A sequence was read off "007-x" on a field in mixed case.
C19_Witness ==
    /\ "step7" \in done
    /\ df[1].field = "StepName"
    /\ df[1].newv = <<D(3, 7), W("-"), W("x")>>
    /\ df[1].sequence = 7

\* "<field> -> <value>"
Arrow(field, value) == <<W(field), W(" -> ")>> \o value

Instant(ts) ==
    [day |-> DaysFromCivil(ts[1].v, ts[3].v, ts[5].v),
     second |-> ts[7].v * 3600 + ts[9].v * 60 + ts[11].v]

\* Instant a comes strictly before instant b.
Earlier(a, b) == a.day < b.day \/ (a.day = b.day /\ a.second < b.second)

\* The events of every case are in non-decreasing order of their instant.
ChronologicalPerCase(table) ==
    \A i, j \in DOMAIN table :
        (i < j /\ table[i].case_id = table[j].case_id) =>
            ~Earlier(Instant(table[j].timestamp_utc), Instant(table[i].timestamp_utc))

\* C21: the events of one case are in non-decreasing order of the instant of
\* their timestamp_utc in the table from the sorter on, in the canonical output
\* and in every trace of every trace file; and on the timestamps the normalizer
\* produces the string order is the order of the instants.
C21_ChronologicalPerCase ==
    /\ "step2" \in done =>
           \A i, j \in DOMAIN df :
               StrLess(df[i].timestamp_utc, df[j].timestamp_utc)
                   <=> Earlier(Instant(df[i].timestamp_utc), Instant(df[j].timestamp_utc))
    /\ "step10" \in done => ChronologicalPerCase(df)
    /\ ChronologicalPerCase(saved.rows)
    /\ \A l \in DOMAIN files : \A k \in DOMAIN files[l].log :
           LET events == files[l].log[k].events
           IN  \A e, f \in DOMAIN events :
                   e < f => ~Earlier(Instant(events[f].timestamp), Instant(events[e].timestamp))

\* The canonical output and a trace hold two events of one case that the file
\* listed latest first, in years 1 and 2024 or in two formats.
C21_Witness ==
    /\ saved.written
    /\ Len(saved.rows) = 2
    /\ saved.rows[1].timestamp_utc # saved.rows[2].timestamp_utc
    /\ ParsedTimestamp(raw[1]) = saved.rows[2].timestamp_utc
    /\ saved.rows[1].timestamp_utc[1].v < 1000
    /\ \E l \in DOMAIN files : \E k \in DOMAIN files[l].log : Len(files[l].log[k].events) = 2

\* Two rows of one case at one timestamp_utc.
SameCaseAndTimestamp(a, b) == a.case_id = b.case_id /\ a.timestamp_utc = b.timestamp_utc

\* C22 as stated: in the output of sort_events, among the events of one case
\* at one timestamp_utc, every event with a sequence comes before every event
\* without one.
C22_SequencedFirst ==
    "step10" \in done =>
        \A i, j \in DOMAIN df :
            (/\ SameCaseAndTimestamp(df[i], df[j])
             /\ df[i].sequence # NoSeq
             /\ df[j].sequence = NoSeq) => i < j

\* C22, amended: in the output of sort_events, among the events of one case at
\* one timestamp_utc and of one status-code priority, every event with a
\* sequence comes before every event without one.
C22_SequencedFirstWithinPriority ==
    "step10" \in done =>
        \A i, j \in DOMAIN df :
            (/\ SameCaseAndTimestamp(df[i], df[j])
             /\ FiveKeys(df[i])[3] = FiveKeys(df[j])[3]
             /\ df[i].sequence # NoSeq
             /\ df[j].sequence = NoSeq) => i < j

\* sort_events was handed an event without a sequence ahead of an event of the
\* same case, timestamp and priority that carries one.
C22_Witness ==
    /\ "step10" \in done
    /\ \E i, j \in DOMAIN before :
           /\ i < j
           /\ SameCaseAndTimestamp(before[i], before[j])
           /\ FiveKeys(before[i])[3] = FiveKeys(before[j])[3]
           /\ before[i].sequence = NoSeq
           /\ before[j].sequence # NoSeq

\* Whether the row a at input position i comes before the row b at input
\* position j in the lexicographic order of the six keys: the first of the five
\* keys on which they differ decides, the input position when there is none.
SixKeysLess(a, i, b, j) ==
    LET differ == {n \in 1..5 : FiveKeys(a)[n] # FiveKeys(b)[n]}
        n == CHOOSE x \in differ : \A y \in differ : x <= y
    IN  IF differ = {} THEN i < j
        ELSE IF n <= 2 THEN StrLess(FiveKeys(a)[n], FiveKeys(b)[n])
        ELSE FiveKeys(a)[n] < FiveKeys(b)[n]

\* C23: the output of sort_events is a permutation of its input rows, each row
\* unaltered, in ascending lexicographic order of case_id, timestamp_utc,
\* status-code priority, has-sequence flag, sequence value (0 when absent) and
\* input position.
C23_SortedBySixKeys ==
    "step10" \in done =>
        /\ Len(df) = Len(before)
        /\ \E p \in Orderings(Len(before)) :
               /\ df = Reordered(before, p)
               /\ \A k, m \in DOMAIN df :
                      k < m => SixKeysLess(before[p[k]], p[k], before[p[m]], p[m])

\* sort_events was handed, for one case and timestamp, the events of sequence
\* 14 and 2 and then a status-code event, and returned them in reverse.
C23_Witness ==
    /\ "step10" \in done
    /\ Len(before) = 3
    /\ SameCaseAndTimestamp(before[1], before[2])
    /\ SameCaseAndTimestamp(before[2], before[3])
    /\ before[1].sequence = 14
    /\ before[2].sequence = 2
    /\ FiveKeys(before[3])[3] = 0
    /\ df = <<before[3], before[2], before[1]>>

\* The sequence values the Create rows of case c carried when the aggregator
\* was handed the table.
GroupSequences(c) == {before[i].sequence : i \in CreateGroup(before, "op", c)} \ {NoSeq}

\* C24: when a Create row of a case carries a sequence, the aggregated
\* creation event of the case carries the least sequence of the case's Create
\* rows, also when the earliest of them carries none.
C24_AggregatedCarriesMinSequence ==
    pc = "step10" =>
        \A c \in CaseIds :
            GroupSequences(c) # {} =>
                \A i \in EventsOfCase(df, c) :
                    df[i].activity_name = <<W("Case Created")>> =>
                        /\ df[i].sequence \in GroupSequences(c)
                        /\ \A s \in GroupSequences(c) : df[i].sequence <= s

\* The datetimes the parser's attempts give for a trimmed value, in the order
\* it makes them: the ISO-8601 parse, then the six fallback patterns.
Attempts(trimmed) ==
    <<FromIsoFormat(ZToOffset(trimmed))>>
        \o [i \in DOMAIN _TIMESTAMP_STRPTIME_FALLBACKS |->
               Strptime(trimmed, _TIMESTAMP_STRPTIME_FALLBACKS[i])]

\* Whether a trimmed value is empty or "null" in any letter case.
BlankOrNull(trimmed) == trimmed = <<>> \/ trimmed \in {<<W("null")>>, <<W("NULL")>>}

\* C25: for every value of the timestamp column the parser returns either
\* (timestamp, no reason) or (no timestamp, reason): MISSING exactly when the
\* trimmed value is empty or "null", INVALID exactly when it is neither and no
\* attempt succeeds, and else the timestamp of the first attempt that succeeds.
C25_ParserReturnsOneOfTwo ==
    "step1" \in done =>
        /\ error # "OverflowError"
        /\ \A i \in DOMAIN raw :
               LET trimmed == Strip(raw[i].timestamp)
                   res == parse_timestamp_to_utc_iso_z(raw[i].timestamp)
                   ok == {n \in DOMAIN Attempts(trimmed) : Attempts(trimmed)[n].ok}
               IN  /\ res.raised = ""
                   /\ (res.ts = None) # (res.reason = NoReason)
                   /\ res.reason = DROP_TIMESTAMP_MISSING <=> BlankOrNull(trimmed)
                   /\ res.reason = DROP_TIMESTAMP_INVALID
                          <=> (~BlankOrNull(trimmed) /\ ok = {})
                   /\ res.reason = NoReason =>
                          res.ts = IsoFormatZ(ToUtc(AssumeTimezone(
                                       Attempts(trimmed)[CHOOSE n \in ok : \A m \in ok : n <= m])))

\* Whether the case of a row occurs fewer than 2 times in the table.
InSmallCase(table, row) ==
    Cardinality({j \in DOMAIN table : table[j].case_id = row.case_id}) < 2

\* C26: remove_single_event_cases splits its input in two: the rows whose
\* case_id occurs fewer than 2 times go, unchanged and in order, to the
\* abandoned set, the others to the filtered output; no row is in both or in
\* neither; every case of the output has at least 2 rows; the counts returned
\* are the numbers of abandoned cases and of abandoned rows.
C26_PartitionByCaseSize ==
    pc = "step4" =>
        /\ df = SelectSeq(before, LAMBDA row : ~InSmallCase(before, row))
        /\ abandoned.rows = SelectSeq(before, LAMBDA row : InSmallCase(before, row))
        /\ Len(df) + Len(abandoned.rows) = Len(before)
        /\ \A i \in DOMAIN before :
               (\E j \in DOMAIN df : df[j] = before[i])
                   # (\E j \in DOMAIN abandoned.rows : abandoned.rows[j] = before[i])
        /\ \A c \in ColumnValues(df, "case_id") : Cardinality(EventsOfCase(df, c)) >= 2
        /\ report.cases_removed = Cardinality(ColumnValues(abandoned.rows, "case_id"))
        /\ report.rows_removed = Len(abandoned.rows)

\* remove_single_event_cases was handed two rows of one case with the one row
\* of another case between them.
C26_Witness ==
    /\ pc = "step4"
    /\ Len(before) = 3
    /\ before[1].case_id = before[3].case_id
    /\ before[1].case_id # before[2].case_id
    /\ df = <<before[1], before[3]>>
    /\ abandoned.rows = <<before[2]>>

\* The key of the deduplication, read off a row.
Triple(row) == <<row.case_id, row.activity_name, row.timestamp_utc>>

\* The position of the first row of the table that carries the key.
FirstWithKey(table, key) ==
    CHOOSE i \in DOMAIN table :
        Triple(table[i]) = key /\ \A j \in 1..(i - 1) : Triple(table[j]) # key

\* C27: for every key (case_id, activity_name, timestamp_utc) of its input
\* deduplicate_events keeps the first event that carries it and no other, the
\* kept events are in the order of the input, and the count it reports is the
\* length of the input less the length of the output.
C27_FirstOfEveryKeyKept ==
    "step11" \in done =>
        /\ \A i \in DOMAIN before :
               \E k \in DOMAIN df :
                   /\ df[k] = before[FirstWithKey(before, Triple(before[i]))]
                   /\ \A m \in DOMAIN df : Triple(df[m]) = Triple(before[i]) => m = k
        /\ \A k \in DOMAIN df : \E i \in DOMAIN before : Triple(before[i]) = Triple(df[k])
        /\ \A k, m \in DOMAIN df :
               k < m => FirstWithKey(before, Triple(df[k])) < FirstWithKey(before, Triple(df[m]))
        /\ report.duplicates_removed = Len(before) - Len(df)

\* deduplicate_events was handed two different rows of one key with a row of
\* another key between them, and kept the first two.
C27_Witness ==
    /\ pc = "step12"
    /\ "step11" \in done
    /\ Len(before) = 3
    /\ Triple(before[1]) = Triple(before[3])
    /\ before[1] # before[3]
    /\ Triple(before[1]) # Triple(before[2])
    /\ df = <<before[1], before[2]>>
    /\ report.duplicates_removed = 1

\* Whether a string is YYYY-MM-DDTHH:MM:SSZ: whole seconds, a final Z.
IsWholeSecondZ(ts) ==
    /\ Shape(ts) = <<"d", "-", "d", "-", "d", "T", "d", ":", "d", ":", "d", "Z">>
    /\ [i \in 1..6 |-> ts[2 * i - 1].w] = <<4, 2, 2, 2, 2, 2>>

\* C28: every timestamp the parser returns is of whole seconds, ends in Z and
\* passes the exporter's _validate_timestamp_utc, so that the export step of a
\* run of main() never ends with an export error.
C28_ParsedTimestampsPassExport ==
    /\ "step2" \in done =>
           /\ \A i \in DOMAIN raw :
                  LET ts == ParsedTimestamp(raw[i])
                  IN  ts # None =>
                          /\ IsWholeSecondZ(ts)
                          /\ _validate_timestamp_utc(ts) = "ok"
           /\ \A i \in DOMAIN df :
                  /\ IsWholeSecondZ(df[i].timestamp_utc)
                  /\ IsStrictUtcInstant(df[i].timestamp_utc)
    /\ error # "XESExportError"

\* A run of main() wrote a trace of two events whose timestamps came from a
\* value with a fraction of a second and from a value of a fallback format.
C28_Witness ==
    /\ pc = "done"
    /\ \E i, j \in DOMAIN raw :
           /\ Len(raw[i].timestamp) = 14
           /\ Len(raw[j].timestamp) >= 2
           /\ raw[j].timestamp[2] = W("/")
    /\ \E k \in DOMAIN files["L1"].log : Len(files["L1"].log[k].events) = 2

\* Whether row i of the input file is handed to the noise filter: its
\* timestamp parses and its case has at least two rows whose timestamp parses.
ReachesNoiseFilter(i) ==
    /\ ParsedTimestamp(raw[i]) # None
    /\ Cardinality({k \in DOMAIN raw :
           CaseIdOf(raw[k]) = CaseIdOf(raw[i]) /\ ParsedTimestamp(raw[k]) # None}) >= 2

\* The rows of the input file handed to the noise filter whose field is in the
\* taxonomy's KILL_NOISE table, in any letter case, but is no entry of the
\* deny-list character for character.
UndeniedNoiseRows ==
    {i \in DOMAIN raw :
        /\ ReachesNoiseFilter(i)
        /\ Lower(raw[i].field) \in BUCKET_FIELDS("KILL_NOISE")
        /\ raw[i].field \notin KILL_FIELDS}

\* The noise filter keeps exactly the rows whose field is no entry of the
\* deny-list of 10 names, character for character.
FilterKeepsUndenied ==
    /\ Cardinality(KILL_FIELDS) = 10
    /\ pc = "step5" => df = SelectSeq(before, LAMBDA row : row.field \notin KILL_FIELDS)

\* Every row of the canonical output whose field is in the KILL_NOISE table
\* has tier KILL_NOISE and is in no trace file.
NoiseRowsOutOfTraces ==
    \A j \in DOMAIN saved.rows :
        Lower(saved.rows[j].field) \in BUCKET_FIELDS("KILL_NOISE") =>
            /\ saved.rows[j].bucket = "KILL_NOISE"
            /\ saved.rows[j].level = "KILL"
            /\ \A l \in DOMAIN files :
                   TimesInFile(l, saved.rows[j].case_id, XesEvent(saved.rows[j])) = 0

\* Row i of the input file is in the canonical output, with tier KILL_NOISE.
StaysAsNoise(i) ==
    \E j \in DOMAIN saved.rows :
        FileColumns(saved.rows[j]) = raw[i] /\ saved.rows[j].bucket = "KILL_NOISE"

EarliestCreates(c) ==
    {i \in CreateGroup(raw, "op", c) :
        \A k \in CreateGroup(raw, "op", c) :
            ~Earlier(Instant(raw[k].timestamp_utc), Instant(raw[i].timestamp_utc))}

\* C30: the "Case Created" event of a case is an earliest Create row of the
\* case with nothing but activity_name and sequence overwritten, so that it
\* has the tier and level of that row's field; after the export it is once in
\* the trace file of that level and in no other, and in no trace file when
\* the level is KILL or UNKNOWN.
C30_CaseCreatedKeepsTier ==
    "step9" \in done =>
        \A j \in DOMAIN df :
            df[j].activity_name = <<W("Case Created")>> =>
                /\ \E i \in EarliestCreates(df[j].case_id) :
                       \A col \in DOMAIN raw[i] \ {"activity_name", "sequence"} :
                           df[j][col] = raw[i][col]
                /\ <<df[j].bucket, df[j].level>> = classify_field(df[j].field)
                /\ pc \in {"save", "done"} =>
                       \A l \in DOMAIN files :
                           TimesInFile(l, df[j].case_id, XesEvent(df[j]))
                               = IF l = df[j].level THEN 1 ELSE 0

\* After the export the "Case Created" event of a case has level KILL, the
\* level of the earliest Create row, while the case had a Create row of level
\* L3 and the trace file of L3 is written.
C30_Witness ==
    /\ pc = "done"
    /\ files["L3"].written
    /\ \E j \in DOMAIN df :
           /\ df[j].activity_name = <<W("Case Created")>>
           /\ df[j].level = "KILL"
           /\ \E i \in CreateGroup(raw, "op", df[j].case_id) : raw[i].level = "L3"

====
